---- MODULE Spec2Model ----
(***************************************************************************)
(* Model of slackcli's access layer: the unified SlackClient dispatcher    *)
(* (src/lib/slack-client.ts), the cursor pagination of the `users`         *)
(* commands (src/commands/users.ts) and the thread-link extraction of the  *)
(* `search messages` command (src/commands/search.ts).                     *)
(*                                                                         *)
(* One behaviour is one invocation of the CLI.  JavaScript `undefined` is  *)
(* the value Undefined; a template literal is the tuple of its parts.      *)
(***************************************************************************)
EXTENDS Integers, Sequences, FiniteSets, TLC

\* ------------------------------------------------------------------ bounds
MaxPages == 3
MaxMatches == 2
MaxChannels == 3
MaxMessages == 2
MaxFiles == 2

\* ------------------------------------------------------- JavaScript values
Undefined == "<undefined>"

\* truthiness of an optional string: undefined and '' are falsy
Truthy(s) == s # Undefined /\ s # ""

\* a || b on optional strings
OrElse(a, b) == IF Truthy(a) THEN a ELSE b

\* --------------------------------------------------- workspace credentials
\* allowed_targets?: string[] -- unset, or the list of ids
NoTargets == [set |-> FALSE, list |-> <<>>]

Targets(list) == [set |-> TRUE, list |-> list]

\* types/index.ts: WorkspaceConfig = StandardAuthConfig | BrowserAuthConfig.
\* A field that the variant does not declare is Undefined.
StandardAuthConfig ==
  { [auth_type |-> "standard", token |-> "xoxb-1", token_type |-> tt,
     workspace_url |-> Undefined, xoxd_token |-> Undefined,
     xoxc_token |-> Undefined, allowed_targets |-> NoTargets] :
      tt \in {"bot", "user"} }

BrowserAuthConfig ==
  { [auth_type |-> "browser", token |-> Undefined, token_type |-> Undefined,
     workspace_url |-> "https://acme.slack.com", xoxd_token |-> "xoxd-A/1",
     xoxc_token |-> "xoxc-B", allowed_targets |-> NoTargets] }

WorkspaceConfig == StandardAuthConfig \cup BrowserAuthConfig

NoConfig ==
  [auth_type |-> Undefined, token |-> Undefined, token_type |-> Undefined,
   workspace_url |-> Undefined, xoxd_token |-> Undefined,
   xoxc_token |-> Undefined, allowed_targets |-> NoTargets]

\* ------------------------------------------------------------ remote data
SlackUsers ==
  [ U1 |-> [id |-> "U1", name |-> "ann", is_bot |-> FALSE,
            is_app_user |-> FALSE, deleted |-> FALSE],
    U2 |-> [id |-> "U2", name |-> "bot", is_bot |-> TRUE,
            is_app_user |-> FALSE, deleted |-> FALSE],
    U3 |-> [id |-> "U3", name |-> "bob", is_bot |-> FALSE,
            is_app_user |-> FALSE, deleted |-> TRUE] ]

\* what one users.list page may carry in `members`
PageContents ==
  { <<>>, <<SlackUsers.U1>>, <<SlackUsers.U2, SlackUsers.U3>> }

\* the cursor that leads to page i (i > 1); page 1 is fetched without one
CursorOf(i) == "c" \o ToString(i)

\* the page a cursor leads to: no (or an empty) cursor is the first page
PageOf(cursor) ==
  IF ~Truthy(cursor) THEN 1
  ELSE CHOOSE i \in 2..(MaxPages + 1) : CursorOf(i) = cursor

\* String.prototype.includes
Includes(s, q) ==
  \E i \in 1..(Len(s) - Len(q) + 1) : SubSeq(s, i, i + Len(q) - 1) = q

\* String.prototype.toLowerCase over the letters the model uses
LowerChar(c) ==
  CASE c = "A" -> "a" [] c = "B" -> "b" [] c = "N" -> "n" [] c = "O" -> "o"
    [] OTHER -> c

RECURSIVE toLowerCase(_)
toLowerCase(s) ==
  IF Len(s) = 0 THEN ""
  ELSE LowerChar(SubSeq(s, 1, 1)) \o toLowerCase(SubSeq(s, 2, Len(s)))

\* ------------------------------------------------------------------ state
VARIABLES
  cmd,        \* the invocation: command name and its options
  server,     \* the remote: the chain of users.list pages
  config,     \* the workspace record the invocation loaded
  webClient,  \* SlackClient.webClient: the bearer client's token, or Undefined
  pc,         \* position of the command handler
  members,    \* users.ts `members` / `allMembers`
  nextCursor, \* users.ts `nextCursor` / `cursor`
  hasMore,    \* users.ts `hasMore`
  fullQuery,  \* search.ts `fullQuery` / resolveUserModifiers `resolvedQuery`
  todo,       \* resolveUserModifiers: the from:@ matches not yet looked up
  warnings,   \* resolveUserModifiers `warnings`
  inflight,   \* the transport attempt awaiting its response
  wire,       \* every transport attempt made so far, in order
  calls,      \* number of calls of SlackClient.request so far
  last,       \* the last response and what request() made of it
  stdout,     \* what console.log printed, in order
  stderr,     \* what console.error printed, in order
  exitCode,   \* -1 while running, then the process exit code
  store,      \* the persisted credential store (workspaces.json)
  fs,         \* the paths that exist in the file system
  loc         \* the local variables of the other command handlers

vars == <<cmd, server, config, webClient, pc, members, nextCursor, hasMore,
          fullQuery, todo, warnings,
          inflight, wire, calls, last, stdout, stderr, exitCode,
          store, fs, loc>>

searchVars == <<fullQuery, todo, warnings>>

\* what the users and search handlers never touch
cliVars == <<store, fs, loc>>

\* ------------------------------------------------------- remote responses
\* an absent channels / messages array, an absent user, an absent file
NoList == [present |-> FALSE, list |-> <<>>]

NoUser == [id |-> Undefined, name |-> Undefined]

NoFile ==
  [id |-> Undefined, name |-> Undefined, url_private |-> Undefined,
   url_private_download |-> Undefined, mode |-> Undefined]

\* the JSON envelope {ok, error?, members?, response_metadata?.next_cursor};
\* json = FALSE is a body that response.json() cannot parse
Envelope(ok, err, hasMembers, mem, next) ==
  [json |-> TRUE, ok |-> ok, error |-> err, hasMembers |-> hasMembers,
   members |-> mem, next_cursor |-> next, matches |-> <<>>, items |-> <<>>,
   total |-> 0, channel |-> Undefined, ts |-> Undefined, channels |-> NoList,
   user |-> NoUser, file |-> NoFile]

NotJson ==
  [json |-> FALSE, ok |-> FALSE, error |-> Undefined, hasMembers |-> FALSE,
   members |-> <<>>, next_cursor |-> Undefined, matches |-> <<>>,
   items |-> <<>>, total |-> 0, channel |-> Undefined, ts |-> Undefined,
   channels |-> NoList, user |-> NoUser, file |-> NoFile]

NoBody == NotJson

ErrorEnvelope(e) == Envelope(FALSE, e, FALSE, <<>>, Undefined)

\* the page the remote serves for a cursor
PageEnvelope(cursor) ==
  LET i == PageOf(cursor) IN
  IF i > Len(server.pages) THEN ErrorEnvelope("invalid_cursor")
  ELSE Envelope(TRUE, Undefined, server.hasMembers, server.pages[i],
                IF i < Len(server.pages) THEN CursorOf(i + 1) ELSE server.tail)

ApiErrors == {"not_found", "ratelimited", Undefined}

HttpStatuses == {200, 429, 500}

NetworkErrors == {"fetch failed"}

\* what @slack/web-api rejects with (an opaque message of the library)
LibraryErrors == {"An API error occurred: ratelimited"}

NoResponse == [kind |-> "none", status |-> 0, body |-> NoBody, errmsg |-> Undefined]

\* a search match as the remote returns it
Match(threadTs, permalink) ==
  [ts |-> "17.5", channel |-> "C1", thread_ts |-> threadTs, permalink |-> permalink]

\* the matches the remote may return, in the order it returns them
MatchPool ==
  << Match(Undefined, "p?thread_ts=16.2"),
     Match(Undefined, "p?c=1&thread_ts=17.5"),
     Match(Undefined, Undefined),
     Match("15.1", "p?thread_ts=16.2"),
     Match("", "p?xthread_ts=1&thread_ts=9.1"),
     Match(Undefined, "p?thread_ts=&t=1"),
     Match("17.5", Undefined) >>

\* the elements of a sequence at the indices of S, in order
RECURSIVE Pick(_, _, _)
Pick(seq, S, i) ==
  IF i > Len(seq) THEN <<>>
  ELSE (IF i \in S THEN <<seq[i]>> ELSE <<>>) \o Pick(seq, S, i + 1)

MatchLists ==
  { Pick(MatchPool, S, 1) :
      S \in {T \in SUBSET (1..Len(MatchPool)) : Cardinality(T) <= MaxMatches} }

\* response.messages.matches / response.messages.total of search.messages
SearchEnvelope(ms) ==
  [Envelope(TRUE, Undefined, FALSE, <<>>, Undefined)
     EXCEPT !.matches = ms, !.total = Len(ms)]

\* response.items of search.modules.messages: one item per channel
ModulesEnvelope(ms) ==
  [Envelope(TRUE, Undefined, FALSE, <<>>, Undefined)
     EXCEPT !.items = [i \in 1..Len(ms) |->
                         [channel |-> (IF i = 1 THEN "C1" ELSE Undefined),
                          messages |-> <<ms[i]>>]],
            !.total = Len(ms)]

\* an ok envelope that carries nothing else
OkEnvelope == Envelope(TRUE, Undefined, FALSE, <<>>, Undefined)

\* conversations.open: {ok, channel: {id}}; chat.postMessage: {ok, ts}
OpenBodies == {[OkEnvelope EXCEPT !.channel = c] : c \in {"D7", Undefined}}

PostBodies == {[OkEnvelope EXCEPT !.ts = "18.1", !.channel = "C1"]}

\* SlackChannel as conversations.list returns it
Channel(id, isIm, user) == [id |-> id, is_im |-> isIm, user |-> user]

\* the conversations the remote may list, in the order it lists them
ChannelPool ==
  << Channel("C1", FALSE, Undefined),
     Channel("D1", TRUE, "U1"),
     Channel("G1", FALSE, "U3"),
     Channel("D2", TRUE, "U2"),
     Channel("D3", TRUE, "U1"),
     Channel("D4", TRUE, Undefined) >>

ChannelLists ==
  { Pick(ChannelPool, S, 1) :
      S \in {T \in SUBSET (1..Len(ChannelPool)) : Cardinality(T) <= MaxChannels} }

\* a file object as files.info and a message's files array carry it
FileObject(id, name, urlPrivate, urlDownload, mode) ==
  [id |-> id, name |-> name, url_private |-> urlPrivate,
   url_private_download |-> urlDownload, mode |-> mode]

\* SlackMessage as conversations.history and conversations.replies return it
Message(ts, threadTs, user) ==
  [ts |-> ts, thread_ts |-> threadTs, user |-> user, files |-> <<>>]

\* a top-level message with a file, a thread reply with a file of the same
\* name and an external one, the root of that thread, a plain message
MessagePool ==
  << [Message("19.1", Undefined, "U1") EXCEPT !.files =
        <<FileObject("F1", "a.txt", "https://f/a", "https://f/a?dl", "hosted")>>],
     [Message("18.2", "17.5", "U2") EXCEPT !.files =
        <<FileObject("F2", "a.txt", "https://f/b", Undefined, "hosted"),
          FileObject("F3", "x.txt", "https://ext/x", Undefined, "external")>>],
     Message("17.5", "17.5", Undefined),
     Message("16.0", Undefined, "U1") >>

MessageLists ==
  { Pick(MessagePool, S, 1) :
      S \in {T \in SUBSET (1..Len(MessagePool)) : Cardinality(T) <= MaxMessages} }

\* conversations.list: {ok, channels?}
ListBodies ==
  {[OkEnvelope EXCEPT !.channels = [present |-> TRUE, list |-> cs]] :
     cs \in ChannelLists}
  \cup {OkEnvelope}

\* conversations.history: {ok, messages?}
HistoryBodies ==
  {[OkEnvelope EXCEPT !.channels = [present |-> TRUE, list |-> ms]] :
     ms \in MessageLists}

\* users.info: {ok, user?} for the user asked for
UserInfoBodies(userId) ==
  {[OkEnvelope EXCEPT !.user = [id |-> userId, name |-> "n-" \o userId]],
   OkEnvelope}

\* a file object of files.info
File(name, urlPrivate, urlDownload, mode) ==
  FileObject("F", name, urlPrivate, urlDownload, mode)

\* the file objects the remote may describe: a hosted file with its download
\* URL, one without a name extension, a dot file with url_private only, one
\* without any URL, an external one, one without a name
FilePool ==
  { File("a.txt", "https://f/a", "https://f/a?dl", "hosted"),
    File("notes", "https://f/n", "", "hosted"),
    File(".env", "https://f/e", Undefined, "hosted"),
    File("a.txt", Undefined, "", "hosted"),
    File("x.txt", "https://ext/x", Undefined, "external"),
    File(Undefined, "https://f/u", Undefined, "hosted") }

\* files.info: {ok, file?} for the file asked for
FileInfoBodies(fileId) ==
  {[OkEnvelope EXCEPT !.file = [f EXCEPT !.id = fileId]] : f \in FilePool}
  \cup {OkEnvelope}

\* the envelopes the remote serves for an attempt when all goes well
GoodBodies(att) ==
  CASE att.method = "users.list" ->
         {PageEnvelope(IF "cursor" \in DOMAIN att.params
                       THEN att.params["cursor"] ELSE Undefined)}
    [] att.method = "search.messages" ->
         {SearchEnvelope(ms) : ms \in MatchLists}
    [] att.method = "search.modules.messages" ->
         {ModulesEnvelope(ms) : ms \in MatchLists}
    [] att.method = "conversations.open" -> OpenBodies
    [] att.method = "chat.postMessage" -> PostBodies
    [] att.method = "conversations.list" -> ListBodies
    [] att.method = "conversations.history" -> HistoryBodies
    [] att.method = "conversations.replies" -> HistoryBodies
    [] att.method = "users.info" -> UserInfoBodies(att.params["user"])
    [] att.method = "files.info" -> FileInfoBodies(att.params["file"])
    [] OTHER -> {OkEnvelope}

\* every response the remote (or the transport) can give to an attempt
Responses(att) ==
  LET good == GoodBodies(att)
      bodies == good \cup {NotJson} \cup {ErrorEnvelope(e) : e \in ApiErrors}
  IN IF att.strategy = "form"
     THEN {[kind |-> "http", status |-> s, body |-> b, errmsg |-> Undefined] :
              s \in HttpStatuses, b \in bodies}
          \cup {[kind |-> "neterr", status |-> 0, body |-> NoBody, errmsg |-> m] :
              m \in NetworkErrors}
     ELSE {[kind |-> "resolve", status |-> 200, body |-> b, errmsg |-> Undefined] :
              b \in {g \in good : g.ok}}
          \cup {[kind |-> "reject", status |-> 0, body |-> NoBody, errmsg |-> m] :
              m \in LibraryErrors}

\* ---------------------------------------------------- SlackClient (client)
Return(data) == [type |-> "return", data |-> data, message |-> Undefined]
Throw(msg) == [type |-> "throw", data |-> NoBody, message |-> msg]
NoOutcome == [type |-> "none", data |-> NoBody, message |-> Undefined]

\* constructor: the bearer client exists only for standard auth
NewWebClient_Browser(cfg) ==
  IF cfg.auth_type = "browser" THEN cfg.xoxc_token ELSE Undefined

NewWebClient(cfg) ==
  IF cfg.auth_type = "standard" THEN cfg.token ELSE Undefined

\* Response.ok of fetch: the status is in the range 200-299
ResponseOk(status) == status >= 200 /\ status <= 299

NoAttempt ==
  [call |-> 0, strategy |-> "none", method |-> Undefined, url |-> Undefined,
   bearer |-> Undefined, cookie |-> Undefined, origin |-> Undefined,
   params |-> <<>>, body |-> <<>>]

\* encodeURIComponent over the tokens the model uses ("/" becomes "%2F")
RECURSIVE encodeURIComponent(_)
encodeURIComponent(s) ==
  IF Len(s) = 0 THEN ""
  ELSE (IF SubSeq(s, 1, 1) = "/" THEN "%2F" ELSE SubSeq(s, 1, 1))
       \o encodeURIComponent(SubSeq(s, 2, Len(s)))

\* new URLSearchParams({token: xoxc_token, ...params})
FormBody(cfg, params) ==
  [k \in {"token"} \cup DOMAIN params |->
     IF k \in DOMAIN params THEN params[k] ELSE cfg.xoxc_token]

\* standardRequest up to the await: webClient.apiCall(method, params)
StandardAttempt(call, cfg, wc, method, params) ==
  [call |-> call, strategy |-> "bearer", method |-> method, url |-> Undefined,
   bearer |-> wc, cookie |-> Undefined, origin |-> Undefined,
   params |-> params, body |-> <<>>]

\* browserRequest up to the await: fetch(url, {method: 'POST', headers, body})
BrowserAttempt(call, cfg, method, params) ==
  [call |-> call, strategy |-> "form",
   method |-> method, url |-> cfg.workspace_url \o "/api/" \o method,
   bearer |-> Undefined, cookie |-> "d=" \o encodeURIComponent(cfg.xoxd_token),
   origin |-> "https://app.slack.com",
   params |-> params, body |-> FormBody(cfg, params)]

\* the guards that make request() throw before any transport attempt
RequestGuard(cfg, wc) ==
  IF cfg.auth_type = "standard"
  THEN (IF wc = Undefined THEN Throw("WebClient not initialized") ELSE NoOutcome)
  ELSE (IF cfg.auth_type # "browser" THEN Throw("Invalid auth type") ELSE NoOutcome)

\* request(): dispatch on config.auth_type
RequestAttempt_AlwaysBrowser(call, cfg, wc, method, params) ==
  BrowserAttempt(call, cfg, method, params)

RequestAttempt(call, cfg, wc, method, params) ==
  IF cfg.auth_type = "standard"
  THEN StandardAttempt(call, cfg, wc, method, params)
  ELSE BrowserAttempt(call, cfg, method, params)

\* the try block of browserRequest after the await
BrowserTry_NoOkCheck(resp) ==
  IF resp.kind = "neterr" THEN Throw(resp.errmsg)
  ELSE IF ~ResponseOk(resp.status)
       THEN Throw("HTTP error! status: " \o ToString(resp.status))
  ELSE IF ~resp.body.json THEN Throw("Unexpected token in JSON")
  ELSE Return(resp.body)

BrowserTry_BodyFirst(resp) ==
  IF resp.kind = "neterr" THEN Throw(resp.errmsg)
  ELSE IF ~resp.body.json THEN Throw("Unexpected token in JSON")
  ELSE IF ~resp.body.ok THEN Throw(OrElse(resp.body.error, "Unknown API error"))
  ELSE IF ~ResponseOk(resp.status)
       THEN Throw("HTTP error! status: " \o ToString(resp.status))
  ELSE Return(resp.body)

BrowserTry_NoStatusCheck(resp) ==
  IF resp.kind = "neterr" THEN Throw(resp.errmsg)
  ELSE IF ~resp.body.json THEN Throw("Unexpected token in JSON")
  ELSE IF ~resp.body.ok THEN Throw(OrElse(resp.body.error, "Unknown API error"))
  ELSE Return(resp.body)

BrowserTry(resp) ==
  IF resp.kind = "neterr" THEN Throw(resp.errmsg)
  ELSE IF ~ResponseOk(resp.status)
       THEN Throw("HTTP error! status: " \o ToString(resp.status))
  ELSE IF ~resp.body.json THEN Throw("Unexpected token in JSON")
  ELSE IF ~resp.body.ok THEN Throw(OrElse(resp.body.error, "Unknown API error"))
  ELSE Return(resp.body)

\* browserRequest after the await, with its catch
BrowserOutcome(resp) ==
  LET r == BrowserTry(resp) IN
  IF r.type = "throw" THEN Throw("Slack API error: " \o r.message) ELSE r

\* standardRequest after the await, with its catch
StandardOutcome(resp) ==
  IF resp.kind = "reject" THEN Throw("Slack API error: " \o resp.errmsg)
  ELSE Return(resp.body)

\* what request() resolves or rejects with, given the response to its attempt
RequestOutcome(att, resp) ==
  IF att.strategy = "bearer" THEN StandardOutcome(resp) ELSE BrowserOutcome(resp)

\* listUsers(options): only truthy options become parameters
ListUsersParams(cursor, limit) ==
  [k \in (IF Truthy(cursor) THEN {"cursor"} ELSE {})
         \cup (IF Truthy(limit) THEN {"limit"} ELSE {}) |->
     IF k = "cursor" THEN cursor ELSE limit]

\* ------------------------------------------------------- users.ts helpers
formatUserForOutput(u) ==
  [id |-> u.id, name |-> u.name, is_bot |-> u.is_bot, deleted |-> u.deleted]

\* Array.prototype.map with formatUserForOutput
MapUsers(seq) == [i \in 1..Len(seq) |-> formatUserForOutput(seq[i])]

\* response.members || []
MembersOf(data) == IF data.hasMembers THEN data.members ELSE <<>>

\* members.concat(pageMembers)
Accumulate_Reversed(acc, page) == page \o acc

Accumulate(acc, page) == acc \o page

\* hasMore = !!nextCursor
HasMoreOf_Defined(next) == next # Undefined

HasMoreOf(next) == Truthy(next)

\* the two option filters shared by `users list` and `users search`
FilterByOptions(seq, includeBots, includeDeleted) ==
  LET NotBot(u) == ~u.is_bot /\ ~u.is_app_user
      NotDeleted(u) == ~u.deleted
      a == IF ~includeBots THEN SelectSeq(seq, NotBot) ELSE seq
  IN IF ~includeDeleted THEN SelectSeq(a, NotDeleted) ELSE a

\* the query filter of `users search`
FilterByQuery(seq, query) ==
  LET Matches(u) == Includes(toLowerCase(u.name), toLowerCase(query))
  IN SelectSeq(seq, Matches)

UserListOutput(mem, more, next) ==
  [kind |-> "data", users |-> MapUsers(mem), total_count |-> Len(mem),
   has_more |-> more, next_cursor |-> OrElse(next, Undefined),
   query |-> Undefined]

UserSearchOutput(query, matches) ==
  [kind |-> "data", users |-> MapUsers(matches), total_count |-> Len(matches),
   has_more |-> FALSE, next_cursor |-> Undefined, query |-> query]

SchemaOutput ==
  [kind |-> "schema", users |-> <<>>, total_count |-> 0, has_more |-> FALSE,
   next_cursor |-> Undefined, query |-> Undefined]

\* does the handler drain every page (users list --all, users search)?
DrainAll == cmd.name = "users search" \/ cmd.all

\* ------------------------------------------------------ search.ts helpers
IsTsChar(c) ==
  c \in {"0", "1", "2", "3", "4", "5", "6", "7", "8", "9", "."}

\* the last index of the run of [0-9.] characters that starts at i
RECURSIVE RunEnd(_, _)
RunEnd(s, i) ==
  IF i + 1 <= Len(s) /\ IsTsChar(SubSeq(s, i + 1, i + 1))
  THEN RunEnd(s, i + 1) ELSE i

\* does /[?&]thread_ts=([0-9.]+)/ match at index i?
ThreadTsMatchAt(s, i) ==
  /\ i + 11 <= Len(s)
  /\ SubSeq(s, i, i) \in {"?", "&"}
  /\ SubSeq(s, i + 1, i + 10) = "thread_ts="
  /\ IsTsChar(SubSeq(s, i + 11, i + 11))

\* permalink.match(/[?&]thread_ts=([0-9.]+)/): group 1 of the leftmost
\* match, Undefined when there is none
ThreadTsMatch(s) ==
  LET at == {i \in 1..Len(s) : ThreadTsMatchAt(s, i)} IN
  IF at = {} THEN Undefined
  ELSE LET i == CHOOSE x \in at : \A y \in at : x <= y
       IN SubSeq(s, i + 11, RunEnd(s, i + 11))

\* lines 39-49 (and 231-237, 251): the derived thread_ts of a match
DerivedThreadTs_PermalinkFirst(match) ==
  IF Truthy(match.permalink) /\ ThreadTsMatch(match.permalink) # Undefined
  THEN ThreadTsMatch(match.permalink)
  ELSE OrElse(match.thread_ts, Undefined)

DerivedThreadTs(match) ==
  LET threadTs == OrElse(match.thread_ts, Undefined) IN
  IF ~Truthy(threadTs) /\ Truthy(match.permalink)
  THEN (IF ThreadTsMatch(match.permalink) # Undefined
        THEN ThreadTsMatch(match.permalink) ELSE threadTs)
  ELSE threadTs

\* isThreadReply = threadTs ? threadTs !== match.ts : false
IsThreadReply_AnyThread(threadTs, ts) == Truthy(threadTs)

IsThreadReply(threadTs, ts) == IF Truthy(threadTs) THEN threadTs # ts ELSE FALSE

formatMessageMatch(match) ==
  LET threadTs == DerivedThreadTs(match) IN
  [ts |-> match.ts, channel |-> OrElse(match.channel, ""),
   permalink |-> match.permalink, thread_ts |-> threadTs,
   is_thread_reply |-> IsThreadReply(threadTs, match.ts)]

\* the modules API transform of one message of one item
ModulesMessage(msg, item) ==
  LET threadTs == DerivedThreadTs(msg) IN
  [ts |-> msg.ts, channel |-> OrElse(item.channel, ""),
   permalink |-> msg.permalink, thread_ts |-> threadTs,
   is_thread_reply |-> IsThreadReply(threadTs, msg.ts)]

\* (response.items || []).flatMap(item => (item.messages || []).map(...))
RECURSIVE ModulesMatches(_)
ModulesMatches(items) ==
  IF items = <<>> THEN <<>>
  ELSE [i \in 1..Len(Head(items).messages) |->
          ModulesMessage(Head(items).messages[i], Head(items))]
       \o ModulesMatches(Tail(items))

\* the end of the run of non-space characters that starts at i
RECURSIVE WordEnd(_, _)
WordEnd(s, i) ==
  IF i + 1 <= Len(s) /\ SubSeq(s, i + 1, i + 1) # " "
  THEN WordEnd(s, i + 1) ELSE i

\* query.matchAll(/from:@([^\s]+)/gi) from index i on
RECURSIVE FromMatches(_, _)
FromMatches(q, i) ==
  IF i + 6 > Len(q) THEN <<>>
  ELSE IF toLowerCase(SubSeq(q, i, i + 5)) = "from:@" /\ SubSeq(q, i + 6, i + 6) # " "
  THEN <<[whole |-> SubSeq(q, i, WordEnd(q, i + 6)),
          username |-> SubSeq(q, i + 6, WordEnd(q, i + 6))]>>
       \o FromMatches(q, WordEnd(q, i + 6) + 1)
  ELSE FromMatches(q, i + 1)

\* String.prototype.replace(old, new) with a string pattern: first occurrence
ReplaceFirst(s, old, new) ==
  LET at == {i \in 1..(Len(s) - Len(old) + 1) : SubSeq(s, i, i + Len(old) - 1) = old}
  IN IF at = {} THEN s
     ELSE LET i == CHOOSE x \in at : \A y \in at : x <= y
          IN SubSeq(s, 1, i - 1) \o new \o SubSeq(s, i + Len(old), Len(s))

\* String.prototype.startsWith
StartsWith(s, prefix) ==
  Len(s) >= Len(prefix) /\ SubSeq(s, 1, Len(prefix)) = prefix

\* lines 194-202: the query with the --from and --channel shortcuts
BuildQuery(query, from, channel) ==
  LET q1 == IF Truthy(from)
            THEN query \o " from:" \o (IF StartsWith(from, "@") THEN from ELSE "@" \o from)
            ELSE query
  IN IF Truthy(channel)
     THEN q1 \o " in:" \o (IF StartsWith(channel, "#") THEN channel ELSE "#" \o channel)
     ELSE q1

\* lines 270-273: the is:thread augmentation of the standard search path
AugmentQuery_Always(q, topLevelOnly) ==
  IF ~topLevelOnly THEN q \o " is:thread" ELSE q

AugmentQuery(q, topLevelOnly) ==
  IF ~topLevelOnly /\ ~Includes(q, "is:thread") THEN q \o " is:thread" ELSE q

\* users.find(...) of resolveUserModifiers: the first user with that name
FindUser(users, username) ==
  LET hits == {i \in DOMAIN users :
                 toLowerCase(users[i].name) = toLowerCase(username)}
  IN IF hits = {} THEN Undefined
     ELSE users[CHOOSE x \in hits : \A y \in hits : x <= y].id

\* searchMessages(query, options): the parameters of search.messages
SearchMessagesParams(query) ==
  [query |-> query, sort |-> "timestamp", sort_dir |-> "desc", count |-> "20",
   page |-> "1", highlight |-> "false"]

\* searchModulesMessages(query, options): the parameters of the modules API
SearchModulesParams(query) ==
  [module |-> "messages", query |-> query, count |-> "20", page |-> "1",
   sort |-> "timestamp", sort_dir |-> "desc", extracts |-> "1",
   highlight |-> "1", extra_message_data |-> "1",
   search_only_my_channels |-> "false", search_exclude_bots |-> "false"]

SearchMessagesOutput(query, matches, total) ==
  [kind |-> "data", query |-> query, messages |-> matches, total |-> total]

\* --------------------------------------------------------------- the start
Formats == {"json", "pretty", "schema", "yaml"}
StartCursors == {Undefined, "", CursorOf(2)}
SearchQueries == {"AN", "bo"}

Servers ==
  { [pages |-> p, hasMembers |-> h, tail |-> t] :
      p \in UNION { [1..n -> PageContents] : n \in 1..MaxPages },
      h \in BOOLEAN, t \in {Undefined, ""} }

Command(name, format) ==
  [name |-> name, format |-> format, all |-> FALSE, cursor |-> Undefined,
   query |-> Undefined, from |-> Undefined, channel |-> Undefined,
   topLevelOnly |-> FALSE, includeAllChannels |-> FALSE,
   jq |-> Undefined, recipientId |-> Undefined, message |-> Undefined,
   threadTs |-> Undefined, timestamp |-> Undefined, emoji |-> Undefined,
   fileIds |-> <<>>, outputDir |-> Undefined, workspaceId |-> Undefined,
   login |-> FALSE, curl |-> Undefined, excludeReplies |-> FALSE,
   fromClipboard |-> FALSE, downloadFiles |-> FALSE, now |-> 0, date |-> 0,
   method |-> Undefined, params |-> <<>>]

Commands ==
  { [Command("users list", f) EXCEPT !.all = a, !.cursor = c] :
      f \in Formats, a \in BOOLEAN, c \in StartCursors }
  \cup { Command("users search", f) : f \in Formats }

\* the handler locals before a handler has set any
NoLocals ==
  [channelId |-> Undefined, channels |-> <<>>, userIds |-> <<>>,
   users |-> <<>>, pending |-> <<>>, batches |-> <<>>,
   outputDir |-> Undefined, downloads |-> <<>>, errors |-> <<>>,
   rest |-> <<>>, file |-> NoFile, path |-> Undefined, counter |-> 0,
   lookups |-> <<>>, curlInput |-> Undefined, inputChannel |-> Undefined,
   tempDirs |-> <<>>, files |-> <<>>]

\* WorkspacesData: the store that holds the loaded record as its default
StoreOf(cfg) ==
  IF cfg = NoConfig
  THEN [default_workspace |-> Undefined, workspaces |-> <<>>]
  ELSE [default_workspace |-> "T1", workspaces |-> ("T1" :> cfg)]

\* everything but the command, the remote, the workspace record, the store
\* and the disk
InitRest ==
  /\ loc = NoLocals
  /\ webClient = Undefined
  /\ pc = "start"
  /\ members = <<>>
  /\ nextCursor = Undefined
  /\ hasMore = FALSE
  /\ fullQuery = Undefined
  /\ todo = <<>>
  /\ warnings = <<>>
  /\ inflight = NoAttempt
  /\ wire = <<>>
  /\ calls = 0
  /\ last = [resp |-> NoResponse, outcome |-> NoOutcome]
  /\ stdout = <<>>
  /\ stderr = <<>>
  /\ exitCode = -1

Init ==
  /\ cmd \in Commands
  /\ server \in Servers
  /\ config \in WorkspaceConfig \cup {NoConfig}
  /\ fs = {}
  /\ store = StoreOf(config)
  /\ InitRest

\* ------------------------------------------------------------ the handlers
\* validateFormat followed by a handler that forgets its schema return
ValidateFormat_SchemaContinues ==
  /\ pc = "start"
  /\ cmd.format # Undefined
  /\ IF cmd.format \notin {"json", "pretty", "schema"}
     THEN /\ pc' = "crashed"
          /\ exitCode' = 1
          /\ stderr' = Append(stderr, "Invalid format")
          /\ UNCHANGED stdout
     ELSE /\ pc' = "auth"
          /\ stdout' = (IF cmd.format = "schema"
                        THEN Append(stdout, SchemaOutput) ELSE stdout)
          /\ UNCHANGED <<exitCode, stderr>>
  /\ UNCHANGED <<cmd, server, config, webClient, members, nextCursor, hasMore,
                 inflight, wire, calls, last>>
  /\ UNCHANGED searchVars
  /\ UNCHANGED cliVars

\* validateFormat, outside the handler's try: an invalid value is thrown out
\* of the handler; 'schema' prints the schema and returns. A command without
\* a format option (format Undefined) never calls it.
ValidateFormat ==
  /\ pc = "start"
  /\ cmd.format # Undefined
  /\ IF cmd.format \notin {"json", "pretty", "schema"}
     THEN /\ pc' = "crashed"
          /\ exitCode' = 1
          /\ stderr' = Append(stderr, "Invalid format")
          /\ UNCHANGED stdout
     ELSE IF cmd.format = "schema"
     THEN /\ pc' = "done"
          /\ exitCode' = 0
          /\ stdout' = Append(stdout, SchemaOutput)
          /\ UNCHANGED stderr
     ELSE /\ pc' = "auth"
          /\ UNCHANGED <<exitCode, stdout, stderr>>
  /\ UNCHANGED <<cmd, server, config, webClient, members, nextCursor, hasMore,
                 inflight, wire, calls, last>>
  /\ UNCHANGED searchVars
  /\ UNCHANGED cliVars

\* the catch of a handler: failSpinner, error(err.message), process.exit(1)
Fail_Retry(msg) ==
  /\ pc' = (IF calls < 2 THEN "fetch" ELSE "failed")
  /\ stderr' = Append(stderr, msg)
  /\ exitCode' = (IF calls < 2 THEN exitCode ELSE 1)

Fail_Partial(msg) ==
  /\ pc' = "collected"
  /\ stderr' = Append(stderr, msg)
  /\ exitCode' = exitCode

Fail(msg) ==
  /\ pc' = "failed"
  /\ stderr' = Append(stderr, msg)
  /\ exitCode' = 1

\* getAuthenticatedClient: load the workspace, construct the SlackClient;
\* then the handler's local variables are initialised
GetAuthenticatedClient ==
  /\ pc = "auth"
  /\ cmd.name \in {"users list", "users search"}
  /\ IF config = NoConfig
     THEN /\ Fail("No workspace configured")
          /\ UNCHANGED <<webClient, members, nextCursor, hasMore>>
     ELSE /\ webClient' = NewWebClient(config)
          /\ members' = <<>>
          /\ nextCursor' = (IF cmd.name = "users list" THEN cmd.cursor ELSE Undefined)
          /\ hasMore' = FALSE
          /\ pc' = "fetch"
          /\ UNCHANGED <<stderr, exitCode>>
  /\ UNCHANGED <<cmd, server, config, inflight, wire, calls, last, stdout>>
  /\ UNCHANGED searchVars
  /\ UNCHANGED cliVars

\* the limit option as listUsers receives it
Limit == "200"

\* users.ts lines 429 and 533: } while (nextCursor) / } while (cursor)
WalkContinues_Defined(next) == next # Undefined

WalkContinues(next) == Truthy(next)

\* client.listUsers(...) up to the await inside request()
CallListUsers ==
  /\ pc = "fetch"
  /\ calls' = calls + 1
  /\ LET cursor == IF DrainAll THEN nextCursor ELSE cmd.cursor
         params == ListUsersParams(cursor, Limit)
         guard == RequestGuard(config, webClient)
     IN IF guard.type = "throw"
        THEN /\ Fail(guard.message)
             /\ last' = [resp |-> NoResponse, outcome |-> guard]
             /\ UNCHANGED <<inflight, wire>>
        ELSE LET att == RequestAttempt(calls + 1, config, webClient,
                                       "users.list", params)
             IN /\ inflight' = att
                /\ wire' = Append(wire, att)
                /\ pc' = "await"
                /\ UNCHANGED <<last, stderr, exitCode>>
  /\ UNCHANGED <<cmd, server, config, webClient, members, nextCursor, hasMore,
                 stdout>>
  /\ UNCHANGED searchVars
  /\ UNCHANGED cliVars

\* the response arrives: request() settles and the handler goes on
ReturnListUsers ==
  /\ pc = "await"
  /\ \E resp \in Responses(inflight) :
       LET out == RequestOutcome(inflight, resp) IN
       /\ last' = [resp |-> resp, outcome |-> out]
       /\ IF out.type = "throw"
          THEN /\ Fail(out.message)
               /\ UNCHANGED <<members, nextCursor, hasMore>>
          ELSE /\ members' = (IF DrainAll THEN Accumulate(members, MembersOf(out.data))
                              ELSE MembersOf(out.data))
               /\ nextCursor' = out.data.next_cursor
               /\ hasMore' = (IF DrainAll THEN FALSE
                              ELSE HasMoreOf(out.data.next_cursor))
               /\ pc' = (IF DrainAll /\ WalkContinues(out.data.next_cursor)
                         THEN "fetch" ELSE "collected")
               /\ UNCHANGED <<stderr, exitCode>>
  /\ inflight' = NoAttempt
  /\ UNCHANGED <<cmd, server, config, webClient, wire, calls, stdout>>
  /\ UNCHANGED searchVars
  /\ UNCHANGED cliVars

\* users list: filter, build the output, print it
EmitUserList ==
  /\ pc = "collected"
  /\ cmd.name = "users list"
  /\ \E includeBots \in BOOLEAN, includeDeleted \in BOOLEAN :
       LET kept == FilterByOptions(members, includeBots, includeDeleted) IN
       /\ members' = kept
       /\ stdout' = Append(stdout, UserListOutput(kept, hasMore, nextCursor))
  /\ pc' = "done"
  /\ exitCode' = 0
  /\ UNCHANGED <<cmd, server, config, webClient, nextCursor, hasMore, inflight,
                 wire, calls, last, stderr>>
  /\ UNCHANGED searchVars
  /\ UNCHANGED cliVars

\* users search: filter by the query and the options, print the matches
EmitUserSearch ==
  /\ pc = "collected"
  /\ cmd.name = "users search"
  /\ \E query \in SearchQueries, includeBots \in BOOLEAN, includeDeleted \in BOOLEAN :
       LET matches == FilterByOptions(FilterByQuery(members, query),
                                      includeBots, includeDeleted)
       IN stdout' = Append(stdout, UserSearchOutput(query, matches))
  /\ pc' = "done"
  /\ exitCode' = 0
  /\ UNCHANGED <<cmd, server, config, webClient, members, nextCursor, hasMore,
                 inflight, wire, calls, last, stderr>>
  /\ UNCHANGED searchVars
  /\ UNCHANGED cliVars

Next ==
  \/ ValidateFormat
  \/ GetAuthenticatedClient
  \/ CallListUsers
  \/ ReturnListUsers
  \/ EmitUserList
  \/ EmitUserSearch

Spec == Init /\ [][Next]_vars

\* the same program run to its end: the runtime resumes every pending await
\* and a handler that can take a step takes it
SpecWalk == Init /\ [][Next]_vars /\ WF_vars(Next)

\* ------------------------------------------------- search messages handler
SearchServers ==
  { [pages |-> <<p>>, hasMembers |-> TRUE, tail |-> Undefined] :
      p \in {<<SlackUsers.U2, SlackUsers.U1>>} }

SearchCommands ==
  { [Command("search messages", f) EXCEPT
       !.query = q, !.from = fr, !.channel = ch,
       !.topLevelOnly = tl, !.includeAllChannels = ac] :
      f \in Formats,
      q \in {"hi", "is:thread hi", "from:@ANN from:@zed"},
      fr \in {Undefined, "bob"}, ch \in {Undefined, "#dev"},
      tl \in BOOLEAN, ac \in BOOLEAN }

InitSearch ==
  /\ cmd \in SearchCommands
  /\ server \in SearchServers
  /\ config \in {c \in WorkspaceConfig : c.token_type # "user"} \cup {NoConfig}
  /\ fs = {}
  /\ store = StoreOf(config)
  /\ InitRest

\* lines 191-210: the client, the query with its shortcuts, and the from:@
\* modifiers resolveUserModifiers has to look up
SearchBegin ==
  /\ pc = "auth"
  /\ cmd.name = "search messages"
  /\ IF config = NoConfig
     THEN /\ Fail("No workspace configured")
          /\ UNCHANGED <<webClient, fullQuery, todo>>
     ELSE LET q == BuildQuery(cmd.query, cmd.from, cmd.channel)
              found == IF Includes(q, "from:@") THEN FromMatches(q, 1) ELSE <<>>
          IN /\ webClient' = NewWebClient(config)
             /\ fullQuery' = q
             /\ todo' = found
             /\ pc' = (IF found = <<>> THEN "search" ELSE "resolve")
             /\ UNCHANGED <<stderr, exitCode>>
  /\ UNCHANGED <<cmd, server, config, members, nextCursor, hasMore, warnings,
                 inflight, wire, calls, last, stdout>>
  /\ UNCHANGED cliVars

\* resolveUserModifiers has handled Head(todo): go on with the next match,
\* or return, and the handler prints the warnings
ResolveNext(ws) ==
  /\ todo' = Tail(todo)
  /\ warnings' = ws
  /\ pc' = (IF Tail(todo) = <<>> THEN "search" ELSE "resolve")
  /\ stderr' = (IF Tail(todo) = <<>> THEN stderr \o ws ELSE stderr)
  /\ UNCHANGED exitCode

\* resolveUserModifiers: client.listUsers({limit: 1000}) up to the await
CallResolveUser ==
  /\ pc = "resolve"
  /\ calls' = calls + 1
  /\ LET guard == RequestGuard(config, webClient) IN
     IF guard.type = "throw"
     THEN /\ ResolveNext(Append(warnings, "Could not resolve user @"
                                          \o Head(todo).username))
          /\ last' = [resp |-> NoResponse, outcome |-> guard]
          /\ UNCHANGED <<inflight, wire>>
     ELSE LET att == RequestAttempt(calls + 1, config, webClient, "users.list",
                                    ListUsersParams(Undefined, "1000"))
          IN /\ inflight' = att
             /\ wire' = Append(wire, att)
             /\ pc' = "awaitResolve"
             /\ UNCHANGED <<last, todo, warnings, stderr, exitCode>>
  /\ UNCHANGED <<cmd, server, config, webClient, members, nextCursor, hasMore,
                 fullQuery, stdout>>
  /\ UNCHANGED cliVars

\* resolveUserModifiers: the lookup settles; a failure becomes a warning
ReturnResolveUser ==
  /\ pc = "awaitResolve"
  /\ \E resp \in Responses(inflight) :
       LET out == RequestOutcome(inflight, resp)
           m == Head(todo)
           id == FindUser(MembersOf(out.data), m.username)
       IN /\ last' = [resp |-> resp, outcome |-> out]
          /\ IF out.type = "throw"
             THEN /\ ResolveNext(Append(warnings, "Could not resolve user @"
                                                  \o m.username))
                  /\ UNCHANGED fullQuery
             ELSE IF id # Undefined
             THEN /\ fullQuery' = ReplaceFirst(fullQuery, m.whole,
                                               "from:<@" \o id \o ">")
                  /\ ResolveNext(warnings)
             ELSE /\ ResolveNext(Append(warnings, "User @" \o m.username
                                                  \o " not found"))
                  /\ UNCHANGED fullQuery
  /\ inflight' = NoAttempt
  /\ UNCHANGED <<cmd, server, config, webClient, members, nextCursor, hasMore,
                 wire, calls, stdout>>
  /\ UNCHANGED cliVars

\* lines 216-225 and 269-284: the search call up to the await
CallSearch ==
  /\ pc = "search"
  /\ calls' = calls + 1
  /\ LET q == IF cmd.includeAllChannels THEN fullQuery
              ELSE AugmentQuery(fullQuery, cmd.topLevelOnly)
         method == IF cmd.includeAllChannels THEN "search.modules.messages"
                   ELSE "search.messages"
         params == IF cmd.includeAllChannels THEN SearchModulesParams(q)
                   ELSE SearchMessagesParams(q)
         guard == RequestGuard(config, webClient)
     IN /\ fullQuery' = q
        /\ IF guard.type = "throw"
           THEN /\ Fail(guard.message)
                /\ last' = [resp |-> NoResponse, outcome |-> guard]
                /\ UNCHANGED <<inflight, wire>>
           ELSE LET att == RequestAttempt(calls + 1, config, webClient, method, params)
                IN /\ inflight' = att
                   /\ wire' = Append(wire, att)
                   /\ pc' = "awaitSearch"
                   /\ UNCHANGED <<last, stderr, exitCode>>
  /\ UNCHANGED <<cmd, server, config, webClient, members, nextCursor, hasMore,
                 todo, warnings, stdout>>
  /\ UNCHANGED cliVars

\* the matches of the response as the handler prints them
SearchMatches(data) ==
  IF cmd.includeAllChannels
  THEN LET all == ModulesMatches(data.items)
           TopLevel(m) == ~m.is_thread_reply
       IN IF cmd.topLevelOnly THEN SelectSeq(all, TopLevel) ELSE all
  ELSE [i \in 1..Len(data.matches) |-> formatMessageMatch(data.matches[i])]

\* the search settles: transform the matches and print the result
ReturnSearch ==
  /\ pc = "awaitSearch"
  /\ \E resp \in Responses(inflight) :
       LET out == RequestOutcome(inflight, resp) IN
       /\ last' = [resp |-> resp, outcome |-> out]
       /\ IF out.type = "throw"
          THEN /\ Fail(out.message)
               /\ UNCHANGED stdout
          ELSE /\ stdout' = Append(stdout,
                    SearchMessagesOutput(fullQuery, SearchMatches(out.data),
                                         out.data.total))
               /\ pc' = "done"
               /\ exitCode' = 0
               /\ UNCHANGED stderr
  /\ inflight' = NoAttempt
  /\ UNCHANGED <<cmd, server, config, webClient, members, nextCursor, hasMore,
                 fullQuery, todo, warnings, wire, calls>>
  /\ UNCHANGED cliVars

NextSearch ==
  \/ ValidateFormat
  \/ SearchBegin
  \/ CallResolveUser
  \/ ReturnResolveUser
  \/ CallSearch
  \/ ReturnSearch

SpecSearch == InitSearch /\ [][NextSearch]_vars

\* --------------------------------------------------------- output pipeline
IsSpace(c) == c \in {" ", "\n", "\t"}

\* String.prototype.trim
RECURSIVE Trim(_)
Trim(s) ==
  IF Len(s) = 0 THEN s
  ELSE IF IsSpace(SubSeq(s, 1, 1)) THEN Trim(SubSeq(s, 2, Len(s)))
  ELSE IF IsSpace(SubSeq(s, Len(s), Len(s))) THEN Trim(SubSeq(s, 1, Len(s) - 1))
  ELSE s

\* what spawnSync('jq', ...) may come back with: jq missing, a filtered
\* result, an invalid expression, a path the data does not have, and a
\* failure that leaves nothing on stderr
JqRuns ==
  { [installed |-> FALSE, status |-> 127, stdout |-> "", stderr |-> ""],
    [installed |-> TRUE, status |-> 0, stdout |-> "\"18.1\"\n", stderr |-> ""],
    [installed |-> TRUE, status |-> 3, stdout |-> "",
     stderr |-> "jq: error: syntax error\n"],
    [installed |-> TRUE, status |-> 5, stdout |-> "",
     stderr |-> "jq: error: Cannot iterate over null\n"],
    [installed |-> TRUE, status |-> 2, stdout |-> "", stderr |-> " "] }

JqNotInstalled == "jq is not installed. Please install jq to use the --jq option."

\* runJq(data, jqExpr), given what the jq process did
RunJq(run) ==
  IF ~run.installed THEN Throw(JqNotInstalled)
  ELSE IF run.status # 0
  THEN Throw("jq error: " \o OrElse(Trim(run.stderr), "Unknown jq error"))
  ELSE Return(run.stdout)

JqWithPretty ==
  "Error: --jq can only be used with --format=json (the default format)"

\* nothing printed, process still running
Printed(out, err, exit) == [out |-> out, err |-> err, exit |-> exit]

\* output(data, schema, format, prettyFormatter, jqExpr): what it prints on
\* stdout and stderr and whether it calls process.exit(1)
Output(data, format, jqExpr, run) ==
  CASE format = "json" ->
         IF Truthy(jqExpr)
         THEN LET r == RunJq(run) IN
              IF r.type = "throw" THEN Printed(<<>>, <<r.message>>, TRUE)
              ELSE Printed(<<[kind |-> "filtered", data |-> Trim(r.data)]>>,
                           <<>>, FALSE)
         ELSE Printed(<<[kind |-> "json", data |-> data]>>, <<>>, FALSE)
    [] format = "schema" -> Printed(<<SchemaOutput>>, <<>>, FALSE)
    [] OTHER ->
         IF Truthy(jqExpr) THEN Printed(<<>>, <<JqWithPretty>>, TRUE)
         ELSE Printed(<<[kind |-> "pretty", data |-> data]>>, <<>>, FALSE)

\* the handler's last step: output(...) and the return (or the exit in it)
Emit(p) ==
  /\ stdout' = stdout \o p.out
  /\ stderr' = stderr \o p.err
  /\ pc' = (IF p.exit THEN "failed" ELSE "done")
  /\ exitCode' = (IF p.exit THEN 1 ELSE 0)

\* client.<method>(...) up to the await inside request()
Call(method, params, awaitPc) ==
  /\ calls' = calls + 1
  /\ LET guard == RequestGuard(config, webClient) IN
     IF guard.type = "throw"
     THEN /\ Fail(guard.message)
          /\ last' = [resp |-> NoResponse, outcome |-> guard]
          /\ UNCHANGED <<inflight, wire>>
     ELSE LET att == RequestAttempt(calls + 1, config, webClient, method, params)
          IN /\ inflight' = att
             /\ wire' = Append(wire, att)
             /\ pc' = awaitPc
             /\ UNCHANGED <<last, stderr, exitCode>>

\* what the users, search and download code leaves alone
oldVars == <<members, nextCursor, hasMore, fullQuery, todo, warnings>>

\* ------------------------------------------------- messages send and react
Recipients == {"C1", "U7"}

AllowedTargets ==
  {NoTargets, Targets(<<>>), Targets(<<"C1">>), Targets(<<"C2", "U7">>)}

SendConfigs ==
  { [c EXCEPT !.allowed_targets = t] :
      c \in {x \in WorkspaceConfig : x.token_type # "user"}, t \in AllowedTargets }

SendCommands ==
  { [Command("messages send", f) EXCEPT
       !.recipientId = r, !.message = "hello", !.threadTs = tt, !.jq = j] :
      f \in Formats, r \in Recipients, tt \in {Undefined, "17.5"},
      j \in {Undefined, ".ts"} }
  \cup { [Command("messages react", f) EXCEPT
            !.channel = "C1", !.timestamp = "17.5", !.emoji = "fire", !.jq = j] :
           f \in Formats, j \in {Undefined, ".ts"} }

InitSend ==
  /\ cmd \in SendCommands
  /\ server = [pages |-> <<>>, hasMembers |-> FALSE, tail |-> Undefined]
  /\ config \in SendConfigs \cup {NoConfig}
  /\ fs = {}
  /\ store = StoreOf(config)
  /\ InitRest

\* Array.prototype.includes on allowed_targets
InSeq(x, seq) == \E i \in DOMAIN seq : seq[i] = x

\* lines 66-68: is the recipient refused by the workspace's allow-list?
Refused_Never(cfg, recipientId) == FALSE

Refused(cfg, recipientId) ==
  /\ cfg.allowed_targets.set
  /\ Len(cfg.allowed_targets.list) > 0
  /\ ~InSeq(recipientId, cfg.allowed_targets.list)

\* lines 63-80: the client, the allow-list check, and the recipient
SendBegin ==
  /\ pc = "auth"
  /\ cmd.name = "messages send"
  /\ IF config = NoConfig
     THEN /\ Fail("No workspace configured")
          /\ UNCHANGED <<webClient, loc>>
     ELSE /\ webClient' = NewWebClient(config)
          /\ IF Refused(config, cmd.recipientId)
             THEN /\ pc' = "failed"
                  /\ exitCode' = 1
                  /\ stderr' = stderr \o
                       <<"Posting to " \o cmd.recipientId
                           \o " is not allowed by workspace configuration.",
                         "Allowed targets", "To modify allowed targets",
                         "See 'slackcli messages send --help'">>
                  /\ UNCHANGED loc
             ELSE /\ loc' = [loc EXCEPT !.channelId = cmd.recipientId]
                  /\ pc' = (IF StartsWith(cmd.recipientId, "U")
                            THEN "open" ELSE "post")
                  /\ UNCHANGED <<stderr, exitCode>>
  /\ UNCHANGED <<cmd, server, config, inflight, wire, calls, last, stdout,
                 store, fs>>
  /\ UNCHANGED oldVars

\* line 82: client.openConversation(recipientId) up to the await
CallOpenConversation ==
  /\ pc = "open"
  /\ Call("conversations.open", [users |-> cmd.recipientId], "awaitOpen")
  /\ UNCHANGED <<cmd, server, config, webClient, stdout, store, fs, loc>>
  /\ UNCHANGED oldVars

\* lines 82-83: the DM is open (dmResponse.channel.id), or the call failed
ReturnOpenConversation ==
  /\ pc = "awaitOpen"
  /\ \E resp \in Responses(inflight) :
       LET out == RequestOutcome(inflight, resp) IN
       /\ last' = [resp |-> resp, outcome |-> out]
       /\ IF out.type = "throw"
          THEN Fail(out.message) /\ UNCHANGED loc
          ELSE IF out.data.channel = Undefined
          THEN Fail("undefined is not an object") /\ UNCHANGED loc
          ELSE /\ loc' = [loc EXCEPT !.channelId = out.data.channel]
               /\ pc' = "post"
               /\ UNCHANGED <<stderr, exitCode>>
  /\ inflight' = NoAttempt
  /\ UNCHANGED <<cmd, server, config, webClient, wire, calls, stdout, store, fs>>
  /\ UNCHANGED oldVars

\* postMessage(channel, text, options): thread_ts only when truthy
PostMessageParams(channel, text, threadTs) ==
  [k \in {"channel", "text"} \cup (IF Truthy(threadTs) THEN {"thread_ts"} ELSE {}) |->
     CASE k = "channel" -> channel [] k = "text" -> text [] OTHER -> threadTs]

\* lines 87-89: client.postMessage(...) up to the await
CallPostMessage ==
  /\ pc = "post"
  /\ Call("chat.postMessage",
          PostMessageParams(loc.channelId, cmd.message, cmd.threadTs), "awaitPost")
  /\ UNCHANGED <<cmd, server, config, webClient, stdout, store, fs, loc>>
  /\ UNCHANGED oldVars

MessageSendOutput(channelId, ts) == [ok |-> TRUE, channel |-> channelId, ts |-> ts]

\* lines 87-112: the post settles; the result goes through output()
ReturnPostMessage ==
  /\ pc = "awaitPost"
  /\ \E resp \in Responses(inflight) :
       LET out == RequestOutcome(inflight, resp) IN
       /\ last' = [resp |-> resp, outcome |-> out]
       /\ IF out.type = "throw"
          THEN Fail(out.message) /\ UNCHANGED stdout
          ELSE \E run \in JqRuns :
                 Emit(Output(MessageSendOutput(loc.channelId, out.data.ts),
                             cmd.format, cmd.jq, run))
  /\ inflight' = NoAttempt
  /\ UNCHANGED <<cmd, server, config, webClient, wire, calls, store, fs, loc>>
  /\ UNCHANGED oldVars

\* lines 136-138: the client, then client.addReaction(...) up to the await
CallAddReaction ==
  /\ pc = "auth"
  /\ cmd.name = "messages react"
  /\ IF config = NoConfig
     THEN /\ Fail("No workspace configured")
          /\ UNCHANGED <<webClient, inflight, wire, calls, last>>
     ELSE /\ webClient' = NewWebClient(config)
          /\ calls' = calls + 1
          /\ LET att == RequestAttempt(calls + 1, config, NewWebClient(config),
                                       "reactions.add",
                                       [channel |-> cmd.channel,
                                        timestamp |-> cmd.timestamp,
                                        name |-> cmd.emoji])
             IN /\ inflight' = att
                /\ wire' = Append(wire, att)
          /\ pc' = "awaitReact"
          /\ UNCHANGED <<last, stderr, exitCode>>
  /\ UNCHANGED <<cmd, server, config, stdout, store, fs, loc>>
  /\ UNCHANGED oldVars

MessageReactOutput == 
  [ok |-> TRUE, channel |-> cmd.channel, timestamp |-> cmd.timestamp,
   emoji |-> cmd.emoji]

\* lines 138-158: the reaction settles; the result goes through output()
ReturnAddReaction ==
  /\ pc = "awaitReact"
  /\ \E resp \in Responses(inflight) :
       LET out == RequestOutcome(inflight, resp) IN
       /\ last' = [resp |-> resp, outcome |-> out]
       /\ IF out.type = "throw"
          THEN Fail(out.message) /\ UNCHANGED stdout
          ELSE \E run \in JqRuns :
                 Emit(Output(MessageReactOutput, cmd.format, cmd.jq, run))
  /\ inflight' = NoAttempt
  /\ UNCHANGED <<cmd, server, config, webClient, wire, calls, store, fs, loc>>
  /\ UNCHANGED oldVars

NextSend ==
  \/ ValidateFormat
  \/ SendBegin
  \/ CallOpenConversation
  \/ ReturnOpenConversation
  \/ CallPostMessage
  \/ ReturnPostMessage
  \/ CallAddReaction
  \/ ReturnAddReaction

SpecSend == InitSend /\ [][NextSend]_vars

\* ------------------------------------------- conversations list and read
ConvCommands ==
  { Command("conversations list", f) : f \in Formats }
  \cup { [Command("conversations read", f) EXCEPT !.channel = "C1",
            !.excludeReplies = x] : f \in Formats, x \in BOOLEAN }

InitConv ==
  /\ cmd \in ConvCommands
  /\ server = [pages |-> <<>>, hasMembers |-> FALSE, tail |-> Undefined]
  /\ config \in {c \in WorkspaceConfig : c.token_type # "user"} \cup {NoConfig}
  /\ fs = {}
  /\ store = StoreOf(config)
  /\ InitRest

\* the jq process when no --jq was given: never started
NoJqRun == [installed |-> FALSE, status |-> 127, stdout |-> "", stderr |-> ""]

\* new Set of the ids, in insertion order: first occurrences only
RECURSIVE Distinct(_)
Distinct(seq) ==
  IF seq = <<>> THEN <<>>
  ELSE LET front == Distinct(SubSeq(seq, 1, Len(seq) - 1))
           x == seq[Len(seq)]
       IN IF InSeq(x, front) THEN front ELSE Append(front, x)

\* conversations list, lines 68-73: the user ids of the direct messages
UserIdsOf_EveryUser(channels) ==
  LET HasUser(ch) == Truthy(ch.user)
      picked == SelectSeq(channels, HasUser)
  IN Distinct([i \in 1..Len(picked) |-> picked[i].user])

UserIdsOf(channels) ==
  LET IsDm(ch) == ch.is_im /\ Truthy(ch.user)
      picked == SelectSeq(channels, IsDm)
  IN Distinct([i \in 1..Len(picked) |-> picked[i].user])

\* conversations read, lines 187-192: the user ids of the messages
MessageUserIds(messages) ==
  LET HasUser(m) == Truthy(m.user)
      picked == SelectSeq(messages, HasUser)
  IN Distinct([i \in 1..Len(picked) |-> picked[i].user])

\* Array.prototype.reverse
RECURSIVE Reverse(_)
Reverse(seq) ==
  IF seq = <<>> THEN <<>> ELSE Append(Reverse(Tail(seq)), Head(seq))

\* lines 178-180: --exclude-replies keeps top-level messages and thread roots
ExcludeReplies(messages) ==
  LET Keep(m) == ~Truthy(m.thread_ts) \/ m.thread_ts = m.ts
  IN SelectSeq(messages, Keep)

\* users.set(user.id, user) for each returned user: the Map as a function
UsersMap(users) ==
  [id \in {users[i].id : i \in DOMAIN users} |->
     LET last_ == CHOOSE i \in DOMAIN users :
                    users[i].id = id /\ \A j \in DOMAIN users :
                                          users[j].id = id => j <= i
     IN users[last_]]

\* outputData of conversations list (lines 87-104) and read (lines 206-239)
ConversationOutput(name, items, userIds, users) ==
  [command |-> name,
   channels |-> [i \in 1..Len(items) |-> items[i]],
   users |-> IF Len(userIds) > 0
             THEN [present |-> TRUE, map |-> UsersMap(users)]
             ELSE [present |-> FALSE, map |-> <<>>]]

\* the handler after the enrichment: build outputData and print it
EmitConversations(l) ==
  Emit(Output(ConversationOutput(cmd.name, l.channels, l.userIds, l.users),
              cmd.format, Undefined, NoJqRun))

\* lines 57-63 (list) and 153-174 (read): the client and the first call
ConvBegin ==
  /\ pc = "auth"
  /\ cmd.name \in {"conversations list", "conversations read"}
  /\ IF config = NoConfig
     THEN /\ Fail("No workspace configured")
          /\ UNCHANGED <<webClient, inflight, wire, calls, last>>
     ELSE /\ webClient' = NewWebClient(config)
          /\ calls' = calls + 1
          /\ LET att ==
                   IF cmd.name = "conversations list"
                   THEN RequestAttempt(calls + 1, config, NewWebClient(config),
                          "conversations.list",
                          [types |-> "public_channel,private_channel,mpim,im",
                           limit |-> "100", exclude_archived |-> "false"])
                   ELSE IF Truthy(cmd.threadTs)
                   THEN RequestAttempt(calls + 1, config, NewWebClient(config),
                          "conversations.replies",
                          [channel |-> cmd.channel, ts |-> cmd.threadTs,
                           limit |-> "100"])
                   ELSE RequestAttempt(calls + 1, config, NewWebClient(config),
                          "conversations.history",
                          [channel |-> cmd.channel, limit |-> "100"])
             IN /\ inflight' = att
                /\ wire' = Append(wire, att)
          /\ pc' = "awaitList"
          /\ UNCHANGED <<last, stderr, exitCode>>
  /\ UNCHANGED <<cmd, server, config, stdout, store, fs, loc>>
  /\ UNCHANGED oldVars

\* the items of the settled response, as the handler keeps them: the
\* channels; the replies of the thread, reversed (lines 158-166, 184); the
\* history, filtered under --exclude-replies, reversed (lines 167-184)
ItemsOf(data) ==
  LET items == IF data.channels.present THEN data.channels.list ELSE <<>>
  IN IF cmd.name = "conversations list" THEN items
     ELSE IF Truthy(cmd.threadTs) THEN Reverse(items)
     ELSE Reverse(IF cmd.excludeReplies THEN ExcludeReplies(items) ELSE items)

\* line 243: messages.flatMap(msg => msg.files || [])
RECURSIVE AllFiles(_)
AllFiles(messages) ==
  IF messages = <<>> THEN <<>>
  ELSE Head(messages).files \o AllFiles(Tail(messages))

\* lines 242-244: the read handler has files to download before it prints
WantsFiles(l) ==
  /\ cmd.name = "conversations read"
  /\ cmd.downloadFiles
  /\ Len(AllFiles(l.channels)) > 0

\* lines 65-82 / 175-201: the list settles; with user ids to look up the
\* handler enters getUsersInfo, without any it prints at once
ReturnConvList ==
  /\ pc = "awaitList"
  /\ \E resp \in Responses(inflight) :
       LET out == RequestOutcome(inflight, resp) IN
       /\ last' = [resp |-> resp, outcome |-> out]
       /\ IF out.type = "throw"
          THEN Fail(out.message) /\ UNCHANGED <<stdout, loc>>
          ELSE LET items == ItemsOf(out.data)
                   ids == IF cmd.name = "conversations list"
                          THEN UserIdsOf(items) ELSE MessageUserIds(items)
                   l == [loc EXCEPT !.channels = items, !.userIds = ids,
                                    !.users = <<>>, !.pending = ids,
                                    !.batches = IF Len(ids) > 0
                                                THEN Append(loc.batches, ids)
                                                ELSE loc.batches]
               IN /\ loc' = l
                  /\ IF Len(ids) > 0
                     THEN pc' = "lookup" /\ UNCHANGED <<stdout, stderr, exitCode>>
                     ELSE IF WantsFiles(l)
                     THEN pc' = "readFiles" /\ UNCHANGED <<stdout, stderr, exitCode>>
                     ELSE EmitConversations(l)
  /\ inflight' = NoAttempt
  /\ UNCHANGED <<cmd, server, config, webClient, wire, calls, store, fs>>
  /\ UNCHANGED oldVars

\* getUsersInfo, lines 156-164: what one turn of the loop does with the
\* settled getUserInfo call: push the user, or log and skip
LookupStep_Rethrow(userId, out) ==
  IF out.type = "throw"
  THEN [push |-> <<>>, err |-> <<>>, rethrow |-> TRUE]
  ELSE [push |-> (IF out.data.ok /\ out.data.user # NoUser
                  THEN <<out.data.user>> ELSE <<>>),
        err |-> <<>>, rethrow |-> FALSE]

LookupStep(userId, out) ==
  IF out.type = "throw"
  THEN [push |-> <<>>, err |-> <<"Failed to fetch user " \o userId>>,
        rethrow |-> FALSE]
  ELSE [push |-> (IF out.data.ok /\ out.data.user # NoUser
                  THEN <<out.data.user>> ELSE <<>>),
        err |-> <<>>, rethrow |-> FALSE]

\* one turn of the getUsersInfo loop is over; after the last one the
\* handler builds its output and prints it, or downloads the files first
AfterLookup(out) ==
  LET step == LookupStep(Head(loc.pending), out)
      l == [loc EXCEPT !.users = loc.users \o step.push,
                       !.pending = Tail(loc.pending),
                       !.lookups = Append(loc.lookups,
                                     [id |-> Head(loc.pending),
                                      threw |-> out.type = "throw",
                                      user |-> out.type = "return"
                                               /\ out.data.user # NoUser])]
  IN IF step.rethrow
     THEN Fail(out.message) /\ UNCHANGED <<stdout, loc>>
     ELSE /\ loc' = l
          /\ IF l.pending = <<>> /\ WantsFiles(l)
             THEN /\ stderr' = stderr \o step.err
                  /\ pc' = "readFiles"
                  /\ UNCHANGED <<stdout, exitCode>>
             ELSE IF l.pending = <<>>
             THEN /\ stdout' = stdout \o
                       Output(ConversationOutput(cmd.name, l.channels, l.userIds,
                                                 l.users),
                              cmd.format, Undefined, NoJqRun).out
                  /\ stderr' = stderr \o step.err
                  /\ pc' = "done"
                  /\ exitCode' = 0
             ELSE /\ stderr' = stderr \o step.err
                  /\ pc' = "lookup"
                  /\ UNCHANGED <<stdout, exitCode>>

\* getUsersInfo: this.getUserInfo(userId) up to the await inside request()
CallUserInfo ==
  /\ pc = "lookup"
  /\ calls' = calls + 1
  /\ LET guard == RequestGuard(config, webClient) IN
     IF guard.type = "throw"
     THEN /\ AfterLookup(guard)
          /\ last' = [resp |-> NoResponse, outcome |-> guard]
          /\ UNCHANGED <<inflight, wire>>
     ELSE LET att == RequestAttempt(calls + 1, config, webClient, "users.info",
                                    [user |-> Head(loc.pending)])
          IN /\ inflight' = att
             /\ wire' = Append(wire, att)
             /\ pc' = "awaitLookup"
             /\ UNCHANGED <<last, stdout, stderr, exitCode, loc>>
  /\ UNCHANGED <<cmd, server, config, webClient, store, fs>>
  /\ UNCHANGED oldVars

\* getUsersInfo: the lookup settles
ReturnUserInfo ==
  /\ pc = "awaitLookup"
  /\ \E resp \in Responses(inflight) :
       LET out == RequestOutcome(inflight, resp) IN
       /\ last' = [resp |-> resp, outcome |-> out]
       /\ AfterLookup(out)
  /\ inflight' = NoAttempt
  /\ UNCHANGED <<cmd, server, config, webClient, wire, calls, store, fs>>
  /\ UNCHANGED oldVars

NextConv ==
  \/ ValidateFormat
  \/ ConvBegin
  \/ ReturnConvList
  \/ CallUserInfo
  \/ ReturnUserInfo

SpecConv == InitConv /\ [][NextConv]_vars

\* ---------------------------------------------------------- files download
FileIds == {"F1", "F2"}

\* the <file-ids...> argument: one id or more, duplicates allowed
FileIdLists == UNION { [1..n -> FileIds] : n \in 1..MaxFiles }

\* the pretty format prints the same result through the formatter
FilesCommands ==
  { [Command("files download", f) EXCEPT !.fileIds = ids, !.outputDir = d] :
      f \in Formats \ {"pretty"}, ids \in FileIdLists, d \in {Undefined, "out"} }

\* the disk before the command runs: empty, or an output directory that
\* already holds files of the names to come
Disks == { {}, {"/cwd/out", "/cwd/out/a.txt", "/cwd/out/.env"} }

InitFiles ==
  /\ cmd \in FilesCommands
  /\ server = [pages |-> <<>>, hasMembers |-> FALSE, tail |-> Undefined]
  /\ config \in {c \in WorkspaceConfig : c.token_type # "user"} \cup {NoConfig}
  /\ fs \in Disks
  /\ store = StoreOf(config)
  /\ InitRest

\* path.resolve and path.join
Resolve(p) == IF StartsWith(p, "/") THEN p ELSE "/cwd/" \o p

Join(dir, name) == dir \o "/" \o name

\* mkdtemp(join(tmpdir(), 'slackcli-downloads-')): a fresh directory
TempDir == "/tmp/slackcli-downloads-Ab12cd"

\* the index of the last "." of s at or before i, 0 when there is none
RECURSIVE LastDot(_, _)
LastDot(s, i) ==
  IF i = 0 THEN 0
  ELSE IF SubSeq(s, i, i) = "." THEN i ELSE LastDot(s, i - 1)

\* line 168: f.name.includes('.') ? '.' + f.name.split('.').pop() : ''
Ext(name) ==
  LET d == LastDot(name, Len(name)) IN
  IF d = 0 THEN "" ELSE "." \o SubSeq(name, d + 1, Len(name))

\* line 169: ext ? f.name.slice(0, -ext.length) : f.name
Base(name) ==
  IF Truthy(Ext(name)) THEN SubSeq(name, 1, Len(name) - Len(Ext(name))) ELSE name

\* lines 163-176: the first path of name, name-1, name-2, ... not on the disk
RECURSIVE FreePath(_, _, _, _, _)
FreePath_FirstName(dir, name, outputPath, counter, disk) == outputPath

FreePath(dir, name, outputPath, counter, disk) ==
  IF outputPath \notin disk THEN outputPath
  ELSE FreePath(dir, name,
                Join(dir, Base(name) \o "-" \o ToString(counter) \o Ext(name)),
                counter + 1, disk)

\* downloadFile up to the await: fetch(url, {headers}) with the credentials
DownloadAttempt(cfg, url) ==
  [call |-> 0, strategy |-> "download", method |-> "GET", url |-> url,
   bearer |-> (IF cfg.auth_type = "standard" THEN cfg.token ELSE Undefined),
   cookie |-> (IF cfg.auth_type = "standard" THEN Undefined
               ELSE "d=" \o encodeURIComponent(cfg.xoxd_token)),
   origin |-> (IF cfg.auth_type = "standard" THEN Undefined
               ELSE "https://app.slack.com"),
   params |-> <<>>, body |-> <<>>]

\* what the file host answers, or the transport fails with
DownloadResponses ==
  {[kind |-> "http", status |-> s, body |-> NoBody, errmsg |-> Undefined] :
     s \in {200, 403}}
  \cup {[kind |-> "neterr", status |-> 0, body |-> NoBody, errmsg |-> m] :
          m \in NetworkErrors}

\* the bytes of a downloaded file
Content == "bytes"

\* downloadFile after the await
DownloadOutcome(resp) ==
  IF resp.kind = "neterr" THEN Throw(resp.errmsg)
  ELSE IF ~ResponseOk(resp.status)
  THEN Throw("Failed to download file: HTTP " \o ToString(resp.status))
  ELSE Return(NoBody)

\* writeFile: done, or refused by the disk
WriteOutcomes == {Undefined, "ENOSPC: no space left on device"}

FileError(fileId, msg) == [file_id |-> fileId, error |-> msg]

\* lines 143-157: from the settled getFileInfo call to the download URL;
\* every way out but the last one pushes an error for the file
InfoStep_SkipSilently(fileId, out) ==
  IF out.type = "throw"
  THEN [err |-> <<FileError(fileId, out.message)>>, url |-> Undefined]
  ELSE LET f == out.data.file IN
       IF f = NoFile
       THEN [err |-> <<FileError(fileId, "undefined is not an object")>>,
             url |-> Undefined]
       ELSE LET downloadUrl == OrElse(f.url_private_download, f.url_private) IN
            IF ~Truthy(downloadUrl)
            THEN [err |-> <<>>, url |-> Undefined]
            ELSE IF f.mode = "external"
            THEN [err |-> <<FileError(fileId,
                              "External files cannot be downloaded directly")>>,
                  url |-> Undefined]
            ELSE [err |-> <<>>, url |-> downloadUrl]

InfoStep(fileId, out) ==
  IF out.type = "throw"
  THEN [err |-> <<FileError(fileId, out.message)>>, url |-> Undefined]
  ELSE LET f == out.data.file IN
       IF f = NoFile
       THEN [err |-> <<FileError(fileId, "undefined is not an object")>>,
             url |-> Undefined]
       ELSE LET downloadUrl == OrElse(f.url_private_download, f.url_private) IN
            IF ~Truthy(downloadUrl)
            THEN [err |-> <<FileError(fileId, "No download URL available")>>,
                  url |-> Undefined]
            ELSE IF f.mode = "external"
            THEN [err |-> <<FileError(fileId,
                              "External files cannot be downloaded directly")>>,
                  url |-> Undefined]
            ELSE [err |-> <<>>, url |-> downloadUrl]

\* lines 160-190: from the settled download to the written file; a failed
\* download, a name path.join rejects and a failed write push an error
SaveStep(fileId, f, dir, out, written, disk) ==
  IF out.type = "throw"
  THEN [ok |-> <<>>, err |-> <<FileError(fileId, out.message)>>, disk |-> disk]
  ELSE IF f.name = Undefined
  THEN [ok |-> <<>>,
        err |-> <<FileError(fileId, "The \"path\" argument must be of type string")>>,
        disk |-> disk]
  ELSE LET outputPath == FreePath(dir, f.name, Join(dir, f.name), 1, disk) IN
       IF written # Undefined
       THEN [ok |-> <<>>, err |-> <<FileError(fileId, written)>>, disk |-> disk]
       ELSE [ok |-> <<[file_id |-> fileId, name |-> f.name, path |-> outputPath,
                       size |-> Len(Content)]>>,
             err |-> <<>>, disk |-> disk \cup {outputPath}]

\* lines 199-202: outputData
FileDownloadOutput(downloads, errors) ==
  [downloads |-> downloads,
   errors |-> IF Len(errors) > 0 THEN [present |-> TRUE, list |-> errors]
              ELSE [present |-> FALSE, list |-> <<>>]]

\* lines 127-129 (and conversations.ts 244-246): a temporary directory is
\* made only when no --output-dir was given
NeedsTempDir_Always(outputDirOption) == TRUE

NeedsTempDir(outputDirOption) == ~Truthy(outputDirOption)

\* lines 127-141: the output directory, the client, the two lists
DownloadBegin ==
  /\ pc = "auth"
  /\ cmd.name = "files download"
  /\ \E made \in BOOLEAN :
       LET temp == NeedsTempDir(cmd.outputDir)
           outputDir == IF temp THEN TempDir ELSE Resolve(cmd.outputDir)
           l == [loc EXCEPT !.tempDirs = IF temp THEN Append(loc.tempDirs, TempDir)
                                         ELSE loc.tempDirs]
       IN IF ~made /\ temp
          THEN /\ pc' = "crashed"
               /\ exitCode' = 1
               /\ stderr' = Append(stderr, "EACCES: permission denied, mkdtemp")
               /\ UNCHANGED <<webClient, fs, loc>>
          ELSE IF ~made
          THEN /\ Fail("EACCES: permission denied, mkdir")
               /\ UNCHANGED <<webClient, fs, loc>>
          ELSE /\ fs' = fs \cup {outputDir}
               /\ IF config = NoConfig
                  THEN /\ Fail("No workspace configured")
                       /\ loc' = l
                       /\ UNCHANGED webClient
                  ELSE /\ webClient' = NewWebClient(config)
                       /\ loc' = [l EXCEPT !.outputDir = outputDir,
                                           !.downloads = <<>>, !.errors = <<>>,
                                           !.rest = cmd.fileIds]
                       /\ pc' = "file"
                       /\ UNCHANGED <<stderr, exitCode>>
  /\ UNCHANGED <<cmd, server, config, inflight, wire, calls, last, stdout, store>>
  /\ UNCHANGED oldVars

\* lines 226-228: if (downloads.length === 0) process.exit(1)
ExitAfterBatch_OnAnyError(downloads, errors) ==
  IF Len(errors) > 0 THEN 1 ELSE 0

ExitAfterBatch(downloads, errors) ==
  IF Len(downloads) = 0 THEN 1 ELSE 0

\* one turn of the loop is over: the file is on one of the lists; after the
\* last one the handler prints the result, and exits with 1 if nothing was
\* downloaded (lines 193-228)
AfterFile(ok, err, disk) ==
  LET l == [loc EXCEPT !.downloads = loc.downloads \o ok,
                       !.errors = loc.errors \o err,
                       !.rest = Tail(loc.rest),
                       !.file = NoFile]
  IN /\ loc' = l
     /\ fs' = disk
     /\ UNCHANGED stderr
     /\ IF l.rest = <<>>
        THEN /\ stdout' = stdout \o
                  Output(FileDownloadOutput(l.downloads, l.errors),
                         cmd.format, Undefined, NoJqRun).out
             /\ pc' = (IF ExitAfterBatch(l.downloads, l.errors) = 1
                       THEN "failed" ELSE "done")
             /\ exitCode' = ExitAfterBatch(l.downloads, l.errors)
        ELSE /\ pc' = "file"
             /\ UNCHANGED <<stdout, exitCode>>

\* line 145: client.getFileInfo(fileId) up to the await inside request()
CallFileInfo ==
  /\ pc = "file"
  /\ calls' = calls + 1
  /\ LET guard == RequestGuard(config, webClient) IN
     IF guard.type = "throw"
     THEN /\ AfterFile(<<>>, <<FileError(Head(loc.rest), guard.message)>>, fs)
          /\ last' = [resp |-> NoResponse, outcome |-> guard]
          /\ UNCHANGED <<inflight, wire>>
     ELSE LET att == RequestAttempt(calls + 1, config, webClient, "files.info",
                                    [file |-> Head(loc.rest)])
          IN /\ inflight' = att
             /\ wire' = Append(wire, att)
             /\ pc' = "awaitInfo"
             /\ UNCHANGED <<last, stdout, stderr, exitCode, loc, fs>>
  /\ UNCHANGED <<cmd, server, config, webClient, store>>
  /\ UNCHANGED oldVars

\* lines 145-160: the file info settles; with a URL the download starts
ReturnFileInfo ==
  /\ pc = "awaitInfo"
  /\ \E resp \in Responses(inflight) :
       LET out == RequestOutcome(inflight, resp)
           step == InfoStep(Head(loc.rest), out)
       IN /\ last' = [resp |-> resp, outcome |-> out]
          /\ IF step.url = Undefined
             THEN /\ AfterFile(<<>>, step.err, fs)
                  /\ inflight' = NoAttempt
                  /\ UNCHANGED wire
             ELSE LET att == DownloadAttempt(config, step.url) IN
                  /\ inflight' = att
                  /\ wire' = Append(wire, att)
                  /\ loc' = [loc EXCEPT !.file = out.data.file]
                  /\ pc' = "awaitDownload"
                  /\ UNCHANGED <<stdout, stderr, exitCode, fs>>
  /\ UNCHANGED <<cmd, server, config, webClient, calls, store>>
  /\ UNCHANGED oldVars

\* lines 160-190: the download settles and the file is written
ReturnDownload ==
  /\ pc = "awaitDownload"
  /\ \E resp \in DownloadResponses, written \in WriteOutcomes :
       LET out == DownloadOutcome(resp)
           step == SaveStep(Head(loc.rest), loc.file, loc.outputDir, out,
                            written, fs)
       IN /\ last' = [resp |-> resp, outcome |-> out]
          /\ AfterFile(step.ok, step.err, step.disk)
  /\ inflight' = NoAttempt
  /\ UNCHANGED <<cmd, server, config, webClient, wire, calls, store>>
  /\ UNCHANGED oldVars

NextFiles ==
  \/ ValidateFormat
  \/ DownloadBegin
  \/ CallFileInfo
  \/ ReturnFileInfo
  \/ ReturnDownload

SpecFiles == InitFiles /\ [][NextFiles]_vars

\* ------------------------------------- conversations read --download-files
\* conversations read with every option the handler branches on
ReadCommands ==
  { [Command("conversations read", f) EXCEPT !.channel = "C1",
       !.threadTs = t, !.excludeReplies = x, !.downloadFiles = dl,
       !.outputDir = d] :
      f \in Formats \ {"pretty"}, t \in {Undefined, "17.5"}, x \in BOOLEAN,
      dl \in BOOLEAN, d \in {Undefined, "out"} }

InitRead ==
  /\ cmd \in ReadCommands
  /\ server = [pages |-> <<>>, hasMembers |-> FALSE, tail |-> Undefined]
  /\ config \in {c \in WorkspaceConfig : c.token_type # "user"} \cup {NoConfig}
  /\ fs \in Disks
  /\ store = StoreOf(config)
  /\ InitRest

\* lines 206-239 and 294-296: outputData, with downloaded_files when a file
\* was downloaded
ReadOutput(l) ==
  LET outputData == ConversationOutput(cmd.name, l.channels, l.userIds, l.users)
  IN IF Len(l.downloads) > 0
     THEN outputData @@ [downloaded_files |-> l.downloads]
     ELSE outputData

\* lines 244-257: the output directory, made inside the handler's try
ReadDownloadBegin ==
  /\ pc = "readFiles"
  /\ \E made \in BOOLEAN :
       LET temp == NeedsTempDir(cmd.outputDir)
           outputDir == IF temp THEN TempDir ELSE Resolve(cmd.outputDir)
       IN IF ~made
          THEN /\ Fail(IF temp THEN "EACCES: permission denied, mkdtemp"
                       ELSE "EACCES: permission denied, mkdir")
               /\ UNCHANGED <<fs, loc>>
          ELSE /\ fs' = fs \cup {outputDir}
               /\ loc' = [loc EXCEPT !.outputDir = outputDir,
                                     !.downloads = <<>>,
                                     !.files = AllFiles(loc.channels),
                                     !.tempDirs = IF temp
                                                  THEN Append(loc.tempDirs, TempDir)
                                                  ELSE loc.tempDirs]
               /\ pc' = "readFile"
               /\ UNCHANGED <<stderr, exitCode>>
  /\ UNCHANGED <<cmd, server, config, webClient, inflight, wire, calls, last,
                 stdout, store>>
  /\ UNCHANGED oldVars

\* lines 259-265 and 294-312: the next file of the loop is skipped or its
\* download starts; after the last one the handler prints
ReadNextFile ==
  /\ pc = "readFile"
  /\ IF loc.files = <<>>
     THEN /\ Emit(Output(ReadOutput(loc), cmd.format, Undefined, NoJqRun))
          /\ UNCHANGED <<loc, inflight, wire>>
     ELSE LET file == Head(loc.files)
              downloadUrl == OrElse(file.url_private_download, file.url_private)
          IN IF ~Truthy(downloadUrl) \/ file.mode = "external"
             THEN /\ loc' = [loc EXCEPT !.files = Tail(loc.files)]
                  /\ UNCHANGED <<pc, inflight, wire, stdout, stderr, exitCode>>
             ELSE LET att == DownloadAttempt(config, downloadUrl) IN
                  /\ inflight' = att
                  /\ wire' = Append(wire, att)
                  /\ loc' = [loc EXCEPT !.file = file]
                  /\ pc' = "awaitReadDownload"
                  /\ UNCHANGED <<stdout, stderr, exitCode>>
  /\ UNCHANGED <<cmd, server, config, webClient, calls, last, store, fs>>
  /\ UNCHANGED oldVars

\* console.error of line 290
DownloadWarning(name, msg) ==
  "Warning: Failed to download " \o name \o ": " \o msg

\* lines 265-291: the download settles; the file is written under a free
\* name, or the failure is logged and the loop goes on
ReturnReadDownload ==
  /\ pc = "awaitReadDownload"
  /\ \E resp \in DownloadResponses, written \in WriteOutcomes :
       LET out == DownloadOutcome(resp)
           step == SaveStep(loc.file.id, loc.file, loc.outputDir, out,
                            written, fs)
       IN /\ last' = [resp |-> resp, outcome |-> out]
          /\ loc' = [loc EXCEPT !.downloads = loc.downloads \o step.ok,
                                !.files = Tail(loc.files),
                                !.file = NoFile]
          /\ fs' = step.disk
          /\ stderr' = stderr \o
               [i \in 1..Len(step.err) |->
                  DownloadWarning(loc.file.name, step.err[i].error)]
  /\ pc' = "readFile"
  /\ inflight' = NoAttempt
  /\ UNCHANGED <<cmd, server, config, webClient, wire, calls, stdout, exitCode,
                 store>>
  /\ UNCHANGED oldVars

NextRead ==
  \/ NextConv
  \/ ReadDownloadBegin
  \/ ReadNextFile
  \/ ReturnReadDownload

SpecRead == InitRead /\ [][NextRead]_vars

\* both commands that download files
InitDownloads == InitFiles \/ InitRead

NextDownloads == NextFiles \/ NextRead

SpecDownloads == InitDownloads /\ [][NextDownloads]_vars

\* every command of the model: the dispatcher under all its callers
InitAll == Init \/ InitSearch

NextAll == Next \/ NextSearch

SpecAll == InitAll /\ [][NextAll]_vars

\* ------------------------------------------------- auth and update commands
WorkspaceIds == {"T1", "T2"}

\* [curl-command]: none, a command copied from the browser, anything else
GoodCurl == "curl 'https://acme.slack.com/api/x' -b 'd=xoxd-A/1'"

\* text that may arrive on a channel: nothing, blanks, a command copied from
\* the browser, a cURL command without the tokens, anything else
CurlTexts == {"", "  ", GoodCurl, "curl https://example.com", "ls"}

CurlInputs == {Undefined, GoodCurl, "ls"}

\* readClipboard(): {success, content?, error?}
ClipboardReads ==
  {[success |-> FALSE, content |-> Undefined, error |-> e] :
     e \in {Undefined, "pbpaste: not found"}}
  \cup {[success |-> TRUE, content |-> c, error |-> Undefined] :
          c \in CurlTexts \cup {Undefined}}

\* hasPipedInput() and the chunks of process.stdin (Undefined: no chunk)
PipedInputs ==
  {[piped |-> FALSE, content |-> Undefined]}
  \cup {[piped |-> TRUE, content |-> c] : c \in CurlTexts \cup {Undefined}}

\* isInteractiveTerminal() and what readInteractiveInput resolves with
Terminals ==
  {[tty |-> FALSE, typed |-> Undefined]}
  \cup {[tty |-> TRUE, typed |-> c] : c \in CurlTexts}

\* the commands of createAuthCommand and `update check`; login, login-browser,
\* set-default, remove and logout have no format option
AuthCommands ==
  { Command(n, Undefined) : n \in {"auth login", "auth login-browser", "auth logout"} }
  \cup { [Command(n, Undefined) EXCEPT !.workspaceId = w] :
           n \in {"auth set-default", "auth remove"}, w \in WorkspaceIds }
  \cup { [Command("auth list", f) EXCEPT !.jq = j] :
           f \in Formats, j \in {Undefined, ".ts"} }
  \cup { [Command("auth parse-curl", f) EXCEPT !.login = l, !.curl = c, !.jq = j,
                                                !.fromClipboard = b] :
           f \in Formats, l \in BOOLEAN, c \in CurlInputs, j \in {Undefined, ".ts"},
           b \in BOOLEAN }
  \cup { Command("update check", f) : f \in Formats }

\* the stores an invocation may find: none, one workspace, two workspaces
Stores ==
  { StoreOf(c) : c \in WorkspaceConfig \cup {NoConfig} }
  \cup { [default_workspace |-> d,
          workspaces |-> [w \in WorkspaceIds |->
                            IF w = "T1"
                            THEN CHOOSE c \in StandardAuthConfig : c.token_type = "bot"
                            ELSE CHOOSE c \in BrowserAuthConfig : TRUE]] :
           d \in WorkspaceIds }

InitAuth ==
  /\ cmd \in AuthCommands
  /\ server = [pages |-> <<>>, hasMembers |-> FALSE, tail |-> Undefined]
  /\ store \in Stores
  /\ config = (IF store.default_workspace = Undefined THEN NoConfig
               ELSE store.workspaces[store.default_workspace])
  /\ fs = {}
  /\ InitRest

\* a call a library outside the command modules makes on the network
LibAttempt(method) ==
  [NoAttempt EXCEPT !.call = 0, !.strategy = "library", !.method = method]

\* lib/workspaces: the store with the workspace added; the first workspace
\* becomes the default
AddWorkspace(st, id, cfg) ==
  [default_workspace |-> OrElse(st.default_workspace, id),
   workspaces |-> [w \in DOMAIN st.workspaces \cup {id} |->
                     IF w = id THEN cfg ELSE st.workspaces[w]]]

\* lib/workspaces: setDefaultWorkspace, removeWorkspace, clearAllWorkspaces
SetDefaultWorkspace(st, id) == [st EXCEPT !.default_workspace = id]

RemoveWorkspace(st, id) ==
  LET left == DOMAIN st.workspaces \ {id} IN
  [default_workspace |->
     IF st.default_workspace # id THEN st.default_workspace
     ELSE IF left = {} THEN Undefined ELSE CHOOSE w \in left : TRUE,
   workspaces |-> [w \in left |-> st.workspaces[w]]]

ClearAllWorkspaces == [default_workspace |-> Undefined, workspaces |-> <<>>]

\* console output of the formatter helpers
Text(s) == [kind |-> "text", data |-> s]

\* lines 315-317: parse-curl logs in only with --login
ParseCurlLogsIn_Always(login) == TRUE

ParseCurlLogsIn(login) == login

\* auth login (lines 43-62) and auth login-browser (lines 74-94):
\* authenticate against the remote, store the workspace, report
AuthLogin ==
  /\ pc = "start"
  /\ cmd.name \in {"auth login", "auth login-browser"}
  /\ wire' = Append(wire, LibAttempt("auth.test"))
  /\ \E id \in WorkspaceIds \cup {Undefined} :
       IF id = Undefined
       THEN Fail("Authentication failed") /\ UNCHANGED <<store, stdout>>
       ELSE /\ store' = AddWorkspace(store, id,
                          IF cmd.name = "auth login"
                          THEN CHOOSE c \in StandardAuthConfig : c.token_type = "bot"
                          ELSE CHOOSE c \in BrowserAuthConfig : TRUE)
            /\ stdout' = stdout \o <<Text("Authenticated as workspace"),
                                     Text("Workspace ID: " \o id)>>
            /\ pc' = "done"
            /\ exitCode' = 0
            /\ UNCHANGED stderr
  /\ UNCHANGED <<cmd, server, config, webClient, inflight, calls, last, fs, loc>>
  /\ UNCHANGED oldVars

\* WorkspaceListOutput (lines 121-128)
WorkspaceListOutput(st) ==
  [workspaces |-> [w \in DOMAIN st.workspaces |->
                     [workspace_id |-> w,
                      auth_type |-> st.workspaces[w].auth_type,
                      is_default |-> w = st.default_workspace]]]

\* auth list (lines 109-153): read the store and print it
AuthList ==
  /\ pc = "auth"
  /\ cmd.name = "auth list"
  /\ \E readable \in BOOLEAN :
       IF ~readable
       THEN Fail("Failed to list workspaces") /\ UNCHANGED stdout
       ELSE IF DOMAIN store.workspaces = {} /\ cmd.format = "pretty"
       THEN /\ stdout' = stdout \o <<Text("No authenticated workspaces found."),
                                     Text("Run \"slackcli auth login\"")>>
            /\ pc' = "done"
            /\ exitCode' = 0
            /\ UNCHANGED stderr
       ELSE \E run \in JqRuns :
              Emit(Output(WorkspaceListOutput(store), cmd.format, cmd.jq, run))
  /\ UNCHANGED <<cmd, server, config, webClient, inflight, wire, calls, last,
                 store, fs, loc>>
  /\ UNCHANGED oldVars

\* auth set-default (lines 161-168) and auth remove (lines 176-183)
AuthSetDefaultOrRemove ==
  /\ pc = "start"
  /\ cmd.name \in {"auth set-default", "auth remove"}
  /\ IF cmd.workspaceId \notin DOMAIN store.workspaces
     THEN /\ Fail(IF cmd.name = "auth remove" THEN "Failed to remove workspace"
                  ELSE "Failed to set default workspace")
          /\ UNCHANGED <<store, stdout>>
     ELSE /\ store' = (IF cmd.name = "auth remove"
                       THEN RemoveWorkspace(store, cmd.workspaceId)
                       ELSE SetDefaultWorkspace(store, cmd.workspaceId))
          /\ stdout' = Append(stdout,
                         Text((IF cmd.name = "auth remove"
                               THEN "Removed workspace " ELSE "Set default ")
                              \o cmd.workspaceId))
          /\ pc' = "done"
          /\ exitCode' = 0
          /\ UNCHANGED stderr
  /\ UNCHANGED <<cmd, server, config, webClient, inflight, wire, calls, last,
                 fs, loc>>
  /\ UNCHANGED oldVars

\* auth logout (lines 190-197)
AuthLogout ==
  /\ pc = "start"
  /\ cmd.name = "auth logout"
  /\ \E writable \in BOOLEAN :
       IF ~writable
       THEN Fail("Failed to logout") /\ UNCHANGED <<store, stdout>>
       ELSE /\ store' = ClearAllWorkspaces
            /\ stdout' = Append(stdout, Text("Logged out from all workspaces"))
            /\ pc' = "done"
            /\ exitCode' = 0
            /\ UNCHANGED stderr
  /\ UNCHANGED <<cmd, server, config, webClient, inflight, wire, calls, last,
                 fs, loc>>
  /\ UNCHANGED oldVars

\* ParseCurlOutput (lines 307-312) of a command the parser accepts
ParseCurlOutput ==
  [workspace_name |-> "acme", workspace_url |-> "https://acme.slack.com",
   xoxd_token |-> "xoxd-A/1", xoxc_token |-> "xoxc-B"]

\* lib/curl-parser looksLikeCurlCommand: the fast pre-check
looksLikeCurlCommand(text) == StartsWith(Trim(text), "curl")

\* lib/curl-parser parseCurlCommand: the tokens and the URL, or a parse error
\* when a required piece is missing
parseCurlCommand(text) ==
  IF Trim(text) = GoodCurl THEN Return(NoBody)
  ELSE Throw("Could not extract tokens from cURL command")

NotACurlCommand == "Clipboard content does not appear to be a cURL command"

\* lines 249-291: where the cURL text comes from, in priority order: the
\* argument, the clipboard (with the pre-check), piped standard input, the
\* interactive prompt
ReadCurlInput(arg, fromClipboard, clip, piped, term) ==
  IF ~Truthy(arg) /\ fromClipboard
  THEN IF ~clip.success
       THEN [channel |-> "clipboard", input |-> arg, exit |-> TRUE,
             err |-> <<OrElse(clip.error, "Unknown clipboard error")>>]
       ELSE LET content == OrElse(clip.content, "") IN
            IF ~looksLikeCurlCommand(content)
            THEN [channel |-> "clipboard", input |-> content, exit |-> TRUE,
                  err |-> <<NotACurlCommand>>]
            ELSE [channel |-> "clipboard", input |-> content, exit |-> FALSE,
                  err |-> <<>>]
  ELSE IF ~Truthy(arg) /\ piped.piped
  THEN [channel |-> "stdin", exit |-> FALSE, err |-> <<>>,
        input |-> IF piped.content # Undefined THEN piped.content ELSE arg]
  ELSE IF ~Truthy(arg) /\ term.tty
  THEN [channel |-> "interactive", input |-> term.typed, exit |-> FALSE,
        err |-> <<>>]
  ELSE [channel |-> (IF Truthy(arg) THEN "argument" ELSE "none"), input |-> arg,
        exit |-> FALSE, err |-> <<>>]

\* auth parse-curl (lines 242-364): read the input, parse it; no input, a
\* text the parser rejects, or the tokens; with --login the tokens are
\* authenticated and stored, without it they are only printed
AuthParseCurl ==
  /\ pc = "auth"
  /\ cmd.name = "auth parse-curl"
  /\ \E clip \in ClipboardReads, piped \in PipedInputs, term \in Terminals :
     LET read == ReadCurlInput(cmd.curl, cmd.fromClipboard, clip, piped, term)
         parsed == parseCurlCommand(read.input)
     IN
     /\ loc' = [loc EXCEPT !.curlInput = read.input, !.inputChannel = read.channel]
     /\ IF read.exit
        THEN /\ pc' = "failed"
             /\ exitCode' = 1
             /\ stderr' = stderr \o read.err
             /\ stdout' = stdout \o
                  (IF cmd.format = "pretty" THEN <<Text("Tip")>> ELSE <<>>)
             /\ UNCHANGED <<store, wire>>
        ELSE IF ~Truthy(read.input) \/ Trim(read.input) = ""
        THEN /\ Fail("No cURL command provided. Usage:")
             /\ stdout' = Append(stdout, Text("Interactive mode (recommended):"))
             /\ UNCHANGED <<store, wire>>
        ELSE IF parsed.type = "throw"
        THEN /\ Fail("Failed to parse cURL command")
             /\ stdout' = stdout \o
                  (IF cmd.format = "pretty"
                   THEN <<Text("Parsing cURL command..."), Text("Tip: Copy as cURL")>>
                   ELSE <<>>)
             /\ UNCHANGED <<store, wire>>
        ELSE LET parsing == IF cmd.format = "pretty"
                            THEN <<Text("Parsing cURL command...")>> ELSE <<>>
             IN IF ParseCurlLogsIn(cmd.login)
                THEN /\ wire' = Append(wire, LibAttempt("auth.test"))
                     /\ \E id \in WorkspaceIds \cup {Undefined} :
                          IF id = Undefined
                          THEN /\ Fail("Authentication failed")
                               /\ stdout' = stdout \o parsing
                               /\ UNCHANGED store
                          ELSE /\ store' = AddWorkspace(store, id,
                                             CHOOSE c \in BrowserAuthConfig : TRUE)
                               /\ IF cmd.format = "pretty"
                                  THEN /\ stdout' = stdout \o parsing \o
                                            <<Text("Authenticated as workspace"),
                                              Text("Workspace ID: " \o id)>>
                                       /\ pc' = "done"
                                       /\ exitCode' = 0
                                       /\ UNCHANGED stderr
                                  ELSE \E run \in JqRuns :
                                         Emit(Output(ParseCurlOutput, cmd.format,
                                                     cmd.jq, run))
                ELSE /\ \E run \in JqRuns :
                          LET p == Output(ParseCurlOutput, cmd.format, cmd.jq, run)
                          IN Emit([p EXCEPT !.out = parsing \o p.out])
                     /\ UNCHANGED <<store, wire>>
  /\ UNCHANGED <<cmd, server, config, webClient, inflight, calls, last, fs>>
  /\ UNCHANGED oldVars

\* update check (lines 40-65): ask for the latest version and print
UpdateCheck ==
  /\ pc = "auth"
  /\ cmd.name = "update check"
  /\ wire' = Append(wire, LibAttempt("releases/latest"))
  /\ \E latest \in {Undefined, "v0.1.0", "v0.2.0"} :
       IF latest = Undefined
       THEN Fail("Failed to check for updates") /\ UNCHANGED stdout
       ELSE Emit(Output([current_version |-> "0.1.0", latest_version |-> latest,
                         update_available |-> latest # "v0.1.0"],
                        cmd.format, Undefined, NoJqRun))
  /\ UNCHANGED <<cmd, server, config, webClient, inflight, calls, last,
                 store, fs, loc>>
  /\ UNCHANGED oldVars

NextAuth ==
  \/ ValidateFormat
  \/ AuthLogin
  \/ AuthList
  \/ AuthSetDefaultOrRemove
  \/ AuthLogout
  \/ AuthParseCurl
  \/ UpdateCheck

SpecAuth == InitAuth /\ [][NextAuth]_vars

\* --------------------------------------------------------- date formatter
\* Date values count half seconds here (the code's Date counts milliseconds):
\* fine enough for Math.floor to matter, small enough for years of them
TicksPerSecond == 2

minute == 60
hour == minute * 60
day == hour * 24
month == day * 30
year == day * 365

\* the elapsed times tried: around every threshold of the function and
\* around the first multiples of every unit
TimeMarks ==
  {0, minute, 2 * minute, hour, 2 * hour, day, 2 * day, 59 * day, 60 * day,
   61 * day, 3 * month, 2 * year - 1, 2 * year, 3 * year}

ElapsedSeconds == { m + o : m \in TimeMarks, o \in -1..1 }

TimeCommands ==
  { [Command("formatRelativeTime", Undefined) EXCEPT
       !.date = 2 * TicksPerSecond, !.now = 2 * TicksPerSecond + d * TicksPerSecond + r] :
      d \in ElapsedSeconds, r \in 0..(TicksPerSecond - 1) }

InitTime ==
  /\ cmd \in TimeCommands
  /\ server = [pages |-> <<>>, hasMembers |-> FALSE, tail |-> Undefined]
  /\ config = NoConfig
  /\ store = StoreOf(NoConfig)
  /\ fs = {}
  /\ InitRest

\* `${n} ${unit}${n === 1 ? '' : 's'} ago`
Ago(n, unit) ==
  ToString(n) \o " " \o unit \o (IF n = 1 THEN "" ELSE "s") \o " ago"

\* formatRelativeTime, given now.getTime() and date.getTime()
formatRelativeTime_DayInclusive(now, date) ==
  LET diffSeconds == (now - date) \div TicksPerSecond IN
  IF diffSeconds < 0 THEN "in the future"
  ELSE IF diffSeconds < 60 * minute
  THEN LET minutes == diffSeconds \div minute IN
       IF minutes = 0 THEN "just now" ELSE Ago(minutes, "minute")
  ELSE IF diffSeconds <= 24 * hour THEN Ago(diffSeconds \div hour, "hour")
  ELSE IF diffSeconds < 60 * day THEN Ago(diffSeconds \div day, "day")
  ELSE IF diffSeconds < 2 * year THEN Ago(diffSeconds \div month, "month")
  ELSE Ago(diffSeconds \div year, "year")

formatRelativeTime(now, date) ==
  LET diffSeconds == (now - date) \div TicksPerSecond IN
  IF diffSeconds < 0 THEN "in the future"
  ELSE IF diffSeconds < 60 * minute
  THEN LET minutes == diffSeconds \div minute IN
       IF minutes = 0 THEN "just now" ELSE Ago(minutes, "minute")
  ELSE IF diffSeconds < 24 * hour THEN Ago(diffSeconds \div hour, "hour")
  ELSE IF diffSeconds < 60 * day THEN Ago(diffSeconds \div day, "day")
  ELSE IF diffSeconds < 2 * year THEN Ago(diffSeconds \div month, "month")
  ELSE Ago(diffSeconds \div year, "year")

\* a caller formats a timestamp
FormatRelativeTime ==
  /\ pc = "start"
  /\ cmd.name = "formatRelativeTime"
  /\ stdout' = Append(stdout, Text(formatRelativeTime(cmd.now, cmd.date)))
  /\ pc' = "done"
  /\ exitCode' = 0
  /\ UNCHANGED <<cmd, server, config, webClient, inflight, wire, calls, last,
                 stderr, store, fs, loc>>
  /\ UNCHANGED oldVars

NextTime == FormatRelativeTime

SpecTime == InitTime /\ [][NextTime]_vars

\* ------------------------------------------ SlackClient.request, directly
\* the params a caller of the public request(method, params) may pass: none,
\* a method argument, a cursor, and records that carry a key named token
RequestParams ==
  { <<>>,
    [user |-> "U1"],
    [cursor |-> "c2", limit |-> "200"],
    [token |-> "xoxp-other"],
    [token |-> "", user |-> "U1"],
    [token |-> "xoxc-1"] }

RequestCommands ==
  { [Command("request", Undefined) EXCEPT !.method = m, !.params = p] :
      m \in {"auth.test", "api.test"}, p \in RequestParams }

InitRequest ==
  /\ cmd \in RequestCommands
  /\ server = [pages |-> <<>>, hasMembers |-> FALSE, tail |-> Undefined]
  /\ config \in WorkspaceConfig
  /\ fs = {}
  /\ store = StoreOf(config)
  /\ InitRest

\* new SlackClient(config), lines 8-16
NewClient ==
  /\ pc = "start"
  /\ cmd.name = "request"
  /\ webClient' = NewWebClient(config)
  /\ pc' = "fetch"
  /\ UNCHANGED <<cmd, server, config, inflight, wire, calls, last, stdout,
                 stderr, exitCode>>
  /\ UNCHANGED oldVars
  /\ UNCHANGED cliVars

\* client.request(method, params) up to the await (lines 18-66)
CallRequest ==
  /\ pc = "fetch"
  /\ cmd.name = "request"
  /\ calls' = calls + 1
  /\ LET guard == RequestGuard(config, webClient) IN
     IF guard.type = "throw"
     THEN /\ last' = [resp |-> NoResponse, outcome |-> guard]
          /\ pc' = "failed"
          /\ UNCHANGED <<inflight, wire>>
     ELSE LET att == RequestAttempt(calls + 1, config, webClient, cmd.method,
                                    cmd.params)
          IN /\ inflight' = att
             /\ wire' = Append(wire, att)
             /\ pc' = "await"
             /\ UNCHANGED last
  /\ UNCHANGED <<cmd, server, config, webClient, stdout, stderr, exitCode>>
  /\ UNCHANGED oldVars
  /\ UNCHANGED cliVars

\* the request settles: the caller gets the data or the rejection
ReturnRequest ==
  /\ pc = "await"
  /\ cmd.name = "request"
  /\ \E resp \in Responses(inflight) :
       LET out == RequestOutcome(inflight, resp) IN
       /\ last' = [resp |-> resp, outcome |-> out]
       /\ pc' = (IF out.type = "throw" THEN "failed" ELSE "done")
  /\ inflight' = NoAttempt
  /\ UNCHANGED <<cmd, server, config, webClient, wire, calls, stdout, stderr,
                 exitCode>>
  /\ UNCHANGED oldVars
  /\ UNCHANGED cliVars

NextRequest ==
  \/ NewClient
  \/ CallRequest
  \/ ReturnRequest

SpecRequest == InitRequest /\ [][NextRequest]_vars

\* every command of the program the model covers
InitCli == Init \/ InitSearch \/ InitSend \/ InitConv \/ InitFiles \/ InitAuth

NextCli ==
  \/ Next
  \/ NextSearch
  \/ NextSend
  \/ NextConv
  \/ NextFiles
  \/ NextAuth

SpecCli == InitCli /\ [][NextCli]_vars

TypeOK ==
  /\ pc \in {"start", "auth", "fetch", "await", "collected", "resolve",
            "awaitResolve", "search", "awaitSearch", "done", "failed", "crashed",
            "open", "awaitOpen", "post", "awaitPost", "awaitReact",
            "awaitList", "lookup", "awaitLookup",
            "file", "awaitInfo", "awaitDownload",
            "readFiles", "readFile", "awaitReadDownload"}
  /\ exitCode \in {-1, 0, 1}

\* ------------------------------------------------------------- properties
\* the request() call that has just settled was made with browser auth and
\* got an HTTP response
BrowserHttp == config.auth_type = "browser" /\ last.resp.kind = "http"

Is2xx(status) == status \in 200..299

\* the handler has thrown away the result: nothing printed, exit code 1
Aborted == pc = "failed" /\ stdout = <<>> /\ exitCode = 1

\* C1: browser auth, a 2xx response whose envelope has ok=false and error=e:
\* request() throws an error whose message carries e, and the envelope is
\* never handed to the caller as a result.
C1_OkFalseOn2xxThrows ==
  (/\ BrowserHttp
   /\ Is2xx(last.resp.status)
   /\ last.resp.body.json /\ ~last.resp.body.ok
   /\ Truthy(last.resp.body.error))
  => /\ last.outcome.type = "throw"
     /\ Includes(last.outcome.message, last.resp.body.error)
     /\ last.outcome.data = NoBody
     /\ cmd.name \in {"users list", "users search"} => Aborted

C1_Witness ==
  /\ BrowserHttp
  /\ last.resp.status = 200
  /\ last.resp.body.json /\ ~last.resp.body.ok
  /\ last.resp.body.error = "not_found"
  /\ last.outcome.message = "Slack API error: not_found"

\* C2 as stated: whenever the envelope has ok=false, whatever the HTTP
\* status, the error raised is built from the envelope's error string.
C2_Original ==
  (/\ BrowserHttp
   /\ last.resp.body.json /\ ~last.resp.body.ok
   /\ Truthy(last.resp.body.error))
  => /\ last.outcome.type = "throw"
     /\ Includes(last.outcome.message, last.resp.body.error)

\* C2 as amended: an ok=false envelope always makes request() throw; on a
\* 2xx response the message is the envelope's error string (or 'Unknown API
\* error' when that is empty or absent), on a non-2xx response the message
\* is built from the HTTP status and the envelope is not read.
C2_OkFalseErrorByStatus ==
  (BrowserHttp /\ last.resp.body.json /\ ~last.resp.body.ok)
  => /\ last.outcome.type = "throw"
     /\ Is2xx(last.resp.status) =>
          last.outcome.message =
            "Slack API error: " \o (IF Truthy(last.resp.body.error)
                                    THEN last.resp.body.error
                                    ELSE "Unknown API error")
     /\ ~Is2xx(last.resp.status) =>
          last.outcome.message =
            "Slack API error: HTTP error! status: " \o ToString(last.resp.status)

C2_Witness ==
  /\ BrowserHttp
  /\ last.resp.status = 429
  /\ last.resp.body.json /\ ~last.resp.body.ok
  /\ last.resp.body.error = "ratelimited"
  /\ last.outcome.message = "Slack API error: HTTP error! status: 429"

\* C3: browser auth, a non-2xx status: request() throws whatever the body
\* is, also when the body is an ok=true envelope.
C3_Non2xxIsFatal ==
  (BrowserHttp /\ ~Is2xx(last.resp.status))
  => /\ last.outcome.type = "throw"
     /\ last.outcome.data = NoBody
     /\ cmd.name \in {"users list", "users search"} => Aborted

C3_Witness ==
  /\ BrowserHttp
  /\ last.resp.status = 500
  /\ last.resp.body.json /\ last.resp.body.ok
  /\ last.outcome.type = "throw"
  /\ pc = "failed"

\* the number of request() calls the invocation makes when nothing fails:
\* one per page of the chain, or one per from:@ modifier plus the search
PlannedCalls ==
  IF cmd.name = "search messages"
  THEN LET q == BuildQuery(cmd.query, cmd.from, cmd.channel) IN
       (IF Includes(q, "from:@") THEN Len(FromMatches(q, 1)) ELSE 0) + 1
  ELSE IF DrainAll /\ PageOf(cmd.cursor) <= Len(server.pages)
  THEN Len(server.pages) - PageOf(cmd.cursor) + 1
  ELSE 1

\* at most one transport attempt per call of request(), and never more calls
\* than the invocation makes when nothing fails
C4_AttemptsAtMostCalls ==
  /\ Len(wire) <= calls
  /\ \A i, j \in DOMAIN wire : i # j => wire[i].call # wire[j].call
  /\ calls <= PlannedCalls
  /\ pc = "failed" => exitCode = 1 /\ inflight = NoAttempt

ExpectedCookie(xoxd) == IF xoxd = "xoxd-A/1" THEN "d=xoxd-A%2F1" ELSE "?"

\* C5: every transport attempt uses the strategy the credential's tag
\* selects: bearer token for 'standard' and nothing of the browser variant;
\* for 'browser' a form POST to <workspace_url>/api/<method> with the
\* session token as cookie and the API token as body field, and no bearer.
C5_StrategyByTag ==
  \A i \in DOMAIN wire :
    LET a == wire[i] IN
    /\ (a.strategy = "bearer") <=> (config.auth_type = "standard")
    /\ (a.strategy = "form") <=> (config.auth_type = "browser")
    /\ a.strategy = "bearer" =>
         /\ a.bearer = config.token /\ a.bearer # Undefined
         /\ a.cookie = Undefined /\ a.url = Undefined /\ a.body = <<>>
    /\ a.strategy = "form" =>
         /\ a.url = config.workspace_url \o "/api/" \o a.method
         /\ a.cookie = ExpectedCookie(config.xoxd_token)
         /\ "token" \in DOMAIN a.body
         /\ a.body["token"] = config.xoxc_token
         /\ \A k \in DOMAIN a.params : a.body[k] = a.params[k]
         /\ a.bearer = Undefined

C5_Witness ==
  /\ Len(wire) = 2
  /\ wire[1].strategy = "form"
  /\ wire[2].url = "https://acme.slack.com/api/users.list"
  /\ wire[2].body["cursor"] = CursorOf(2)

C5_WitnessStandard ==
  /\ Len(wire) = 2
  /\ wire[2].strategy = "bearer"
  /\ wire[2].bearer = "xoxb-1"

\* exactly one variant of a workspace record is populated
OneVariant(cfg) ==
  \/ /\ cfg.auth_type = "standard"
     /\ cfg.token # Undefined /\ cfg.token_type # Undefined
     /\ cfg.workspace_url = Undefined
     /\ cfg.xoxd_token = Undefined /\ cfg.xoxc_token = Undefined
  \/ /\ cfg.auth_type = "browser"
     /\ cfg.workspace_url # Undefined
     /\ cfg.xoxd_token # Undefined /\ cfg.xoxc_token # Undefined
     /\ cfg.token = Undefined /\ cfg.token_type = Undefined

InitErrors == {"WebClient not initialized", "Invalid auth type"}

\* C6: the loaded record has exactly one variant populated, the bearer
\* client exists iff the tag is 'standard' once the client is constructed,
\* and request() never throws 'WebClient not initialized' or 'Invalid auth
\* type'.
C6_ClientAgreesWithTag ==
  /\ config # NoConfig => OneVariant(config)
  /\ (calls > 0 \/ pc \in {"fetch", "await", "collected", "resolve",
                            "awaitResolve", "search", "awaitSearch"}) =>
       ((webClient # Undefined) <=> (config.auth_type = "standard"))
  /\ last.outcome.message \notin InitErrors
  /\ \A i \in DOMAIN stderr : stderr[i] \notin InitErrors

C6_Witness ==
  /\ config.auth_type = "standard"
  /\ webClient = "xoxb-1"
  /\ calls = 1
  /\ last.outcome.type = "return"

\* the pages of the remote from page i on, in order
RECURSIVE ConcatPages(_)
ConcatPages(i) ==
  IF i > Len(server.pages) THEN <<>>
  ELSE (IF server.hasMembers THEN server.pages[i] ELSE <<>>) \o ConcatPages(i + 1)

StartCursor == IF cmd.name = "users list" THEN cmd.cursor ELSE Undefined

\* C7: drain-all (users list --all, users search): when the loop has ended
\* the collected list is the concatenation, in order, of every page from
\* the first fetched one to the last page of the chain.
C7_DrainAllIsConcat ==
  (pc = "collected" /\ DrainAll)
  => /\ members = ConcatPages(PageOf(StartCursor))
     /\ Len(wire) = Len(server.pages) - PageOf(StartCursor) + 1

C7_Witness ==
  /\ pc = "collected" /\ DrainAll
  /\ Len(server.pages) = 3
  /\ Len(wire) = 3
  /\ members = <<SlackUsers.U1, SlackUsers.U2, SlackUsers.U3, SlackUsers.U1>>

\* the next_cursor of the page the remote serves for the start cursor
FirstPageNext ==
  LET i == PageOf(StartCursor) IN
  IF i < Len(server.pages) THEN CursorOf(i + 1) ELSE server.tail

\* C8: single page (users list without --all): one fetch, the list is that
\* page's items, has_more holds iff the page has a next_cursor (a non-empty
\* one), and the printed next_cursor is then that cursor.
C8_SinglePage ==
  (cmd.name = "users list" /\ ~cmd.all) =>
    /\ Len(wire) <= 1
    /\ pc = "collected" =>
         /\ Len(wire) = 1
         /\ members = (IF server.hasMembers
                       THEN server.pages[PageOf(StartCursor)] ELSE <<>>)
         /\ hasMore <=> (FirstPageNext \notin {Undefined, ""})
    /\ (pc = "done" /\ cmd.format # "schema") =>
         /\ Len(stdout) = 1
         /\ stdout[1].has_more <=> (FirstPageNext \notin {Undefined, ""})
         /\ stdout[1].has_more => stdout[1].next_cursor = FirstPageNext
         /\ ~stdout[1].has_more => stdout[1].next_cursor = Undefined
         /\ \A k \in DOMAIN stdout[1].users :
              \E m \in DOMAIN server.pages[PageOf(StartCursor)] :
                stdout[1].users[k].id = server.pages[PageOf(StartCursor)][m].id

C8_Witness ==
  /\ cmd.name = "users list" /\ ~cmd.all
  /\ pc = "done"
  /\ Len(wire) = 1
  /\ Len(stdout) = 1
  /\ stdout[1].has_more
  /\ stdout[1].next_cursor = CursorOf(2)
  /\ Len(stdout[1].users) = 1

\* C9: drain-all, a page fetch fails: nothing is printed, not even the pages
\* already fetched, and the process exits with code 1.
C9_FailedWalkPrintsNothing ==
  (DrainAll /\ last.outcome.type = "throw")
  => /\ stdout = <<>>
     /\ exitCode = 1
     /\ pc = "failed"

C9_Witness ==
  /\ DrainAll
  /\ Len(wire) = 3
  /\ members # <<>>
  /\ last.outcome.type = "throw"
  /\ pc = "failed"
  /\ stdout = <<>>

\* the thread_ts query parameter of the model's permalinks
PermalinkThreadTs(permalink) ==
  CASE permalink = "p?thread_ts=16.2" -> "16.2"
    [] permalink = "p?c=1&thread_ts=17.5" -> "17.5"
    [] permalink = "p?xthread_ts=1&thread_ts=9.1" -> "9.1"
    [] OTHER -> Undefined

\* the thread_ts a match must come out with
ExpectedThreadTs(m) ==
  IF m.thread_ts \notin {Undefined, ""} THEN m.thread_ts
  ELSE PermalinkThreadTs(m.permalink)

\* the matches of the settled search response, in the order received
ReceivedMatches ==
  IF cmd.includeAllChannels
  THEN [i \in 1..Len(last.resp.body.items) |-> last.resp.body.items[i].messages[1]]
  ELSE last.resp.body.matches

\* C10: thread-link extraction.  Every printed match carries the explicit
\* thread_ts of the received match when it has one (whatever its permalink
\* says), else the thread_ts query parameter of its permalink, else none.
C10_ThreadTsExtraction ==
  (cmd.name = "search messages" /\ pc = "done" /\ cmd.format # "schema") =>
    LET got == ReceivedMatches
        expected == [i \in 1..Len(got) |-> ExpectedThreadTs(got[i])]
        printed == [i \in 1..Len(stdout[1].messages) |->
                      stdout[1].messages[i].thread_ts]
        TopLevel(t) == t = Undefined \/ t = "17.5"
    IN IF cmd.includeAllChannels /\ cmd.topLevelOnly
       THEN printed = SelectSeq(expected, TopLevel)
       ELSE printed = expected

C10_Witness ==
  /\ cmd.name = "search messages" /\ pc = "done"
  /\ ~cmd.includeAllChannels
  /\ last.resp.body.matches =
       <<Match(Undefined, "p?thread_ts=16.2"), Match("15.1", "p?thread_ts=16.2")>>
  /\ stdout[1].messages[1].thread_ts = "16.2"
  /\ stdout[1].messages[2].thread_ts = "15.1"

C10_WitnessModules ==
  /\ cmd.name = "search messages" /\ pc = "done"
  /\ cmd.includeAllChannels
  /\ Len(stdout[1].messages) = 2
  /\ stdout[1].messages[1].thread_ts = "9.1"
  /\ stdout[1].messages[2].thread_ts = Undefined

\* C11: thread classification.  Every printed search match is classified by
\* its derived thread_ts: none means not threaded (is_thread_reply false),
\* equal to the match's ts means thread root (false), different from ts
\* means thread reply (true); so is_thread_reply holds iff thread_ts is
\* present and differs from ts.
C11_ThreadClassification ==
  (cmd.name = "search messages" /\ pc = "done" /\ cmd.format # "schema") =>
    /\ \A i \in DOMAIN stdout[1].messages :
         LET m == stdout[1].messages[i] IN
         /\ m.thread_ts # ""
         /\ m.thread_ts = Undefined => ~m.is_thread_reply
         /\ (m.thread_ts # Undefined /\ m.thread_ts = m.ts) => ~m.is_thread_reply
         /\ (m.thread_ts # Undefined /\ m.thread_ts # m.ts) => m.is_thread_reply
    /\ ~(cmd.includeAllChannels /\ cmd.topLevelOnly) =>
         \A i \in DOMAIN ReceivedMatches :
           LET t == ExpectedThreadTs(ReceivedMatches[i]) IN
           stdout[1].messages[i].is_thread_reply
             <=> (t # Undefined /\ t # ReceivedMatches[i].ts)

\* a thread reply and a thread root printed in one result
C11_Witness ==
  /\ cmd.name = "search messages" /\ pc = "done" /\ cmd.format # "schema"
  /\ Len(stdout[1].messages) = 2
  /\ stdout[1].messages[1].thread_ts = "16.2"
  /\ stdout[1].messages[1].is_thread_reply
  /\ stdout[1].messages[2].thread_ts = "17.5"
  /\ stdout[1].messages[2].ts = "17.5"
  /\ ~stdout[1].messages[2].is_thread_reply

\* the search calls the invocation has sent
SearchMethods == {"search.messages", "search.modules.messages"}

\* C12 as stated: for every search invocation the query sent to the remote
\* carries the is:thread modifier by default, and with --top-level-only it is
\* sent without that augmentation (is:thread only if the user typed it).
C12_Original ==
  \A i \in DOMAIN wire :
    wire[i].method \in SearchMethods =>
      LET q == wire[i].params["query"] IN
      /\ ~cmd.topLevelOnly => Includes(q, "is:thread")
      /\ cmd.topLevelOnly =>
           (Includes(q, "is:thread") <=> Includes(cmd.query, "is:thread"))

\* C13 as stated: an invocation that asks for --jq together with
\* --format=pretty is rejected before any network call: it never sends a
\* remote operation (no conversations.open, chat.postMessage, reactions.add).
C13_Original ==
  (Truthy(cmd.jq) /\ cmd.format = "pretty") => (wire = <<>> /\ calls = 0)

\* the filter has failed: runJq's error text is on stderr
JqFailed == \E i \in DOMAIN stderr : StartsWith(stderr[i], "jq error: ")

\* C15 as stated: when the jq filter fails, stderr carries the filter's
\* error text and the expected data shape with the --format=schema hint,
\* no result data is printed, and the exit code is non-zero.
C15_Original ==
  JqFailed =>
    /\ \E j \in DOMAIN stderr : Includes(stderr[j], "Expected schema")
    /\ \E j \in DOMAIN stderr : Includes(stderr[j], "--format=schema")
    /\ stdout = <<>>
    /\ exitCode = 1

\* the allow-list of the loaded record refuses the recipient
NotOnAllowList ==
  /\ config # NoConfig
  /\ config.allowed_targets.set
  /\ config.allowed_targets.list # <<>>
  /\ \A i \in DOMAIN config.allowed_targets.list :
       config.allowed_targets.list[i] # cmd.recipientId

PostingMethods == {"conversations.open", "chat.postMessage"}

C19_Refused ==
  (cmd.name = "messages send" /\ NotOnAllowList) =>
    /\ \A i \in DOMAIN wire : wire[i].method \notin PostingMethods
    /\ calls = 0
    /\ pc \in {"start", "auth", "done", "failed", "crashed"}
    /\ pc = "done" => cmd.format = "schema"
    /\ pc = "failed" => exitCode = 1 /\ stdout = <<>>

C19_Permitted ==
  (cmd.name = "messages send" /\ config # NoConfig /\ ~NotOnAllowList) =>
    \A i \in DOMAIN stderr : ~StartsWith(stderr[i], "Posting to ")

\* C19: messages send honours the allow-list.  With allowed_targets set and
\* non-empty and the recipient not in it, no conversations.open and no
\* chat.postMessage is ever sent and the command exits with code 1; with
\* allowed_targets unset or empty the recipient is never refused and the
\* handler goes on to open the DM or to post.
C19_AllowList ==
  /\ []C19_Refused
  /\ []C19_Permitted
  /\ [][(cmd.name = "messages send" /\ pc = "auth" /\ config # NoConfig
         /\ ~NotOnAllowList) => pc' \in {"open", "post"}]_vars

C19_Witness ==
  /\ cmd.name = "messages send"
  /\ cmd.recipientId = "U7"
  /\ config.allowed_targets = Targets(<<"C1">>)
  /\ pc = "failed"
  /\ exitCode = 1
  /\ wire = <<>>
  /\ Len(stderr) = 4

C19_WitnessPermitted ==
  /\ cmd.name = "messages send"
  /\ cmd.recipientId = "U7"
  /\ config.allowed_targets = Targets(<<>>)
  /\ pc = "done"
  /\ Len(wire) = 2
  /\ wire[2].method = "chat.postMessage"
  /\ wire[2].params["channel"] = "D7"

\* the user ids of the listed direct messages
DmUserIdSet ==
  { loc.channels[i].user :
      i \in {j \in DOMAIN loc.channels :
               loc.channels[j].is_im /\ loc.channels[j].user \notin {Undefined, ""}} }

\* conversations list has its list and has not failed
Listed ==
  /\ cmd.name = "conversations list"
  /\ cmd.format # "schema"
  /\ pc \in {"lookup", "awaitLookup", "done"}

\* the user ids of the users.info calls sent so far, in order
LookedUp ==
  LET IsLookup(a) == a.method = "users.info"
      sent == SelectSeq(wire, IsLookup)
  IN [i \in 1..Len(sent) |-> sent[i].params["user"]]

\* C16: conversations list calls getUsersInfo exactly once when a listed
\* conversation is a direct message carrying a user id and never otherwise
\* (nor before the list has arrived, nor when it failed); the call is given
\* each distinct DM user id once, every id is looked up once, and the users
\* map of the output holds only ids of those DM conversations.
C16_BatchedLookup ==
  /\ (cmd.name = "conversations list" /\ ~Listed) =>
       (loc.batches = <<>> /\ LookedUp = <<>>)
  /\ Listed =>
       /\ Len(loc.batches) = (IF DmUserIdSet # {} THEN 1 ELSE 0)
       /\ DmUserIdSet # {} =>
            /\ Len(loc.batches[1]) = Cardinality(DmUserIdSet)
            /\ {loc.batches[1][i] : i \in DOMAIN loc.batches[1]} = DmUserIdSet
       /\ \A i, j \in DOMAIN LookedUp : LookedUp[i] = LookedUp[j] => i = j
       /\ \A i \in DOMAIN LookedUp : LookedUp[i] \in DmUserIdSet
       /\ pc = "done" =>
            /\ Len(LookedUp) = Cardinality(DmUserIdSet)
            /\ stdout[1].data.users.present <=> (DmUserIdSet # {})
            /\ DOMAIN stdout[1].data.users.map \subseteq DmUserIdSet

C16_Witness ==
  /\ cmd.name = "conversations list" /\ pc = "done"
  /\ loc.channels = << Channel("C1", FALSE, Undefined), Channel("D1", TRUE, "U1"),
                       Channel("G1", FALSE, "U3") >>
  /\ loc.batches = << <<"U1">> >>
  /\ LookedUp = <<"U1">>
  /\ DOMAIN stdout[1].data.users.map = {"U1"}

C16_WitnessDistinct ==
  /\ cmd.name = "conversations list" /\ pc = "done"
  /\ Len(loc.channels) = 3
  /\ loc.channels[1].id = "D1" /\ loc.channels[3].id = "D3"
  /\ loc.batches = << <<"U1", "U2">> >>

\* the ids of the lookups that came back with a user
SucceededIds ==
  LET Succeeded(l) == ~l.threw /\ l.user
      ok == SelectSeq(loc.lookups, Succeeded)
  IN [i \in 1..Len(ok) |-> ok[i].id]

C17_Enriched ==
  /\ [i \in 1..Len(loc.users) |-> loc.users[i].id] = SucceededIds
  /\ \A i \in DOMAIN loc.lookups :
       loc.lookups[i].threw =>
         \E k \in DOMAIN stderr :
           stderr[k] = "Failed to fetch user " \o loc.lookups[i].id
  /\ (pc = "done" /\ cmd.format # "schema"
      /\ cmd.name \in {"conversations list", "conversations read"}) =>
       /\ exitCode = 0
       /\ Len(stdout) = 1
       /\ stdout[1].data.channels = loc.channels
       /\ Len(loc.lookups) = Len(loc.userIds)
       /\ DOMAIN stdout[1].data.users.map =
            {SucceededIds[i] : i \in DOMAIN SucceededIds}

\* C17: enrichment is best-effort.  A user lookup that fails is caught,
\* logged and skipped: getUsersInfo never fails (the handler never leaves it
\* through its catch), it returns exactly the users whose lookup returned
\* one, and the conversation list or message history is still printed with
\* exit code 0.
C17_BestEffortEnrichment ==
  /\ []C17_Enriched
  /\ [][(pc \in {"lookup", "awaitLookup"})
          => (pc' \in {"lookup", "awaitLookup", "done"})]_vars

C17_Witness ==
  /\ cmd.name = "conversations list" /\ pc = "done"
  /\ Len(loc.lookups) = 2
  /\ loc.lookups[1].threw
  /\ ~loc.lookups[2].threw /\ loc.lookups[2].user
  /\ Len(loc.users) = 1
  /\ exitCode = 0
  /\ Len(stdout) = 1

C17_WitnessRead ==
  /\ cmd.name = "conversations read" /\ pc = "done"
  /\ Len(loc.lookups) = 2
  /\ loc.lookups[1].threw /\ loc.lookups[2].threw
  /\ loc.users = <<>>
  /\ Len(stdout[1].data.channels) = 2
  /\ exitCode = 0

\* how often id is the file_id of an entry of a list
RECURSIVE CountId(_, _)
CountId(id, entries) ==
  IF entries = <<>> THEN 0
  ELSE (IF Head(entries).file_id = id THEN 1 ELSE 0) + CountId(id, Tail(entries))

\* how often id was requested
RECURSIVE Requested(_, _)
Requested(id, ids) ==
  IF ids = <<>> THEN 0
  ELSE (IF Head(ids) = id THEN 1 ELSE 0) + Requested(id, Tail(ids))

\* files download has gone through its batch and printed the one result
BatchDone ==
  /\ cmd.name = "files download"
  /\ pc \in {"done", "failed"}
  /\ cmd.format # "schema"
  /\ stdout # <<>>

\* the files.info calls made so far, in order
InfoCalls ==
  LET IsInfo(att) == att.method = "files.info"
      picked == SelectSeq(wire, IsInfo)
  IN [i \in 1..Len(picked) |-> picked[i].params["file"]]

\* C18 as stated: after the batch every requested file id is on exactly one
\* of the downloads list and the errors list
C18_Original ==
  BatchDone =>
    \A id \in FileIds :
      Requested(id, cmd.fileIds) > 0 =>
        (CountId(id, stdout[1].data.downloads) > 0)
          # (CountId(id, stdout[1].data.errors.list) > 0)

\* C18: files download reports a mixed result per requested occurrence of a
\* file id. While the batch runs, the entries of the two lists and the ids
\* still to come add up to the request. After the batch the one printed
\* result holds both lists (the errors list is left out when it is empty),
\* each id has as many entries on the two lists together as it was
\* requested, so an id requested once is on exactly one list, and file info
\* was asked for every requested id in order, whatever happened to the ids
\* before it. The exit code is 1 exactly when nothing was downloaded.
C18_MixedResult ==
  /\ (cmd.name = "files download" /\ pc \in {"file", "awaitInfo", "awaitDownload"}) =>
       /\ Len(loc.downloads) + Len(loc.errors) + Len(loc.rest) = Len(cmd.fileIds)
       /\ stdout = <<>>
  /\ BatchDone =>
       LET data == stdout[1].data IN
       /\ Len(stdout) = 1
       /\ data.errors.present = (data.errors.list # <<>>)
       /\ \A id \in FileIds :
            CountId(id, data.downloads) + CountId(id, data.errors.list)
              = Requested(id, cmd.fileIds)
       /\ InfoCalls = cmd.fileIds
       /\ exitCode = (IF data.downloads = <<>> THEN 1 ELSE 0)

\* a first file that failed, a second file that was downloaded all the same,
\* both reported in the one result
C18_Witness ==
  /\ BatchDone
  /\ cmd.fileIds = <<"F1", "F2">>
  /\ CountId("F1", stdout[1].data.errors.list) = 1
  /\ CountId("F2", stdout[1].data.downloads) = 1
  /\ exitCode = 0

\* the same id requested twice: the first attempt failed, the second one
\* was downloaded, and the id is on both lists
C18_WitnessTwice ==
  /\ BatchDone
  /\ cmd.fileIds = <<"F1", "F1">>
  /\ CountId("F1", stdout[1].data.errors.list) = 1
  /\ CountId("F1", stdout[1].data.downloads) = 1

\* a download whose name was taken on the disk got a numbered name
C18_WitnessCollision ==
  /\ BatchDone
  /\ \E i \in DOMAIN stdout[1].data.downloads :
       stdout[1].data.downloads[i].path = "/cwd/out/a-1.txt"

\* the invocation asks for the shape descriptor
SchemaMode == cmd.format = "schema"

\* nothing but the schema has happened: no client, no call, no attempt on the
\* wire, no handler local set, nothing on stderr
C14_NothingButSchema ==
  SchemaMode =>
    /\ pc \in {"start", "done"}
    /\ webClient = Undefined
    /\ calls = 0
    /\ wire = <<>>
    /\ inflight = NoAttempt
    /\ loc = NoLocals
    /\ stderr = <<>>
    /\ (pc = "start" => stdout = <<>> /\ exitCode = -1)
    /\ (pc = "done" => stdout = <<SchemaOutput>> /\ exitCode = 0)

\* C14: with --format=schema every command that has a format option prints
\* the schema and returns with exit code 0; it never constructs a client,
\* never makes a remote call, and leaves the file system and the credential
\* store as they were.
C14_SchemaMode ==
  /\ []C14_NothingButSchema
  /\ [][(SchemaMode) => (fs' = fs /\ store' = store /\ pc' = "done")]_vars

\* files download, the handler that creates directories and files, has
\* returned in schema mode
C14_Witness ==
  /\ SchemaMode
  /\ cmd.name = "files download"
  /\ pc = "done"
  /\ stdout = <<SchemaOutput>>

C14_WitnessAuth ==
  /\ SchemaMode
  /\ cmd.name = "auth parse-curl"
  /\ cmd.login
  /\ pc = "done"

\* the operations that may write the credential store
StoreWriters ==
  {"auth login", "auth login-browser", "auth logout", "auth set-default",
   "auth remove"}

\* C20: a step that changes the persisted credential store is a step of a
\* login (auth login, auth login-browser, auth parse-curl --login), of auth
\* logout, of auth set-default or of auth remove. Every other command leaves
\* the store as it was, whether it succeeds or fails.
C20_StoreFrame ==
  [][(store' # store) =>
       (cmd.name \in StoreWriters \/ (cmd.name = "auth parse-curl" /\ cmd.login))]_vars

\* parse-curl without --login has printed the tokens and the store still
\* holds its workspace
C20_Witness ==
  /\ cmd.name = "auth parse-curl"
  /\ ~cmd.login
  /\ pc = "done"
  /\ stdout # <<>>
  /\ store.default_workspace = "T1"
  /\ store.workspaces["T1"] = config

\* auth logout has emptied a store that held a workspace
C20_WitnessLogout ==
  /\ cmd.name = "auth logout"
  /\ pc = "done"
  /\ config # NoConfig
  /\ store = ClearAllWorkspaces

\* files download has failed after its batch and the store is as it was
C20_WitnessFailed ==
  /\ cmd.name = "files download"
  /\ pc = "failed"
  /\ loc.errors # <<>>
  /\ store = StoreOf(config)
  /\ config # NoConfig

\* parse-curl has ended on an input that does not resemble a cURL command
NotCurlInput ==
  /\ cmd.name = "auth parse-curl"
  /\ pc \in {"done", "failed"}
  /\ cmd.format \in {"json", "pretty"}
  /\ loc.curlInput = "ls"

\* C21 as stated: on every input channel of parse-curl (argument, clipboard,
\* piped standard input, interactive prompt) an input that does not resemble
\* a cURL command is rejected by the pre-check, before the parser runs, with
\* a failure that is not the parse failure.
C21_Original ==
  NotCurlInput =>
    /\ pc = "failed"
    /\ \A i \in DOMAIN stderr : stderr[i] # "Failed to parse cURL command"

\* what does hold: on the clipboard channel the pre-check rejects the input
C21_ClipboardOnly ==
  (NotCurlInput /\ loc.inputChannel = "clipboard") =>
    (pc = "failed" /\ stderr = <<NotACurlCommand>>)

\* C22 as stated: every error raised while a command handler runs (an invalid
\* --format value, a configuration, remote, parse, filter or file-system
\* failure, the failure to create the temporary directory included) is caught
\* at the handler's boundary, which prints a short message and exits with a
\* non-zero code: no error leaves the handler uncaught.
C22_Original == pc # "crashed"

\* what does hold: an error leaves the handler uncaught only from
\* validateFormat or, in files download, from mkdtemp
C22_EscapesOnlyBeforeTry ==
  pc = "crashed" =>
    \/ cmd.format \notin {"json", "pretty", "schema"}
    \/ (cmd.name = "files download" /\ ~Truthy(cmd.outputDir))

\* the elapsed whole seconds of the call
Elapsed == (cmd.now - cmd.date) \div 2

\* the count and the unit the claim gives for d elapsed seconds
RelativeCount(d) ==
  IF d < 3600 THEN d \div 60
  ELSE IF d < 86400 THEN d \div 3600
  ELSE IF d < 60 * 86400 THEN d \div 86400
  ELSE IF d < 730 * 86400 THEN d \div (30 * 86400)
  ELSE d \div (365 * 86400)

RelativeUnit(d) ==
  IF d < 3600 THEN "minute"
  ELSE IF d < 86400 THEN "hour"
  ELSE IF d < 60 * 86400 THEN "day"
  ELSE IF d < 730 * 86400 THEN "month"
  ELSE "year"

C23_WitnessMonths ==
  /\ cmd.name = "formatRelativeTime"
  /\ pc = "done"
  /\ Elapsed = 60 * 86400
  /\ stdout = <<[kind |-> "text", data |-> "2 months ago"]>>

C23_WitnessFuture ==
  /\ cmd.name = "formatRelativeTime"
  /\ pc = "done"
  /\ cmd.now - cmd.date = -1
  /\ stdout = <<[kind |-> "text", data |-> "in the future"]>>


\* the messages a conversations read has printed
PrintedMessages ==
  IF cmd.name = "conversations read"
     /\ stdout # <<>> /\ stdout[1].kind \in {"json", "pretty"}
  THEN stdout[1].data.channels ELSE <<>>

\* a thread reply: its thread_ts is present and differs from its own ts
PrintedReply(m) == m.thread_ts # Undefined /\ m.thread_ts # "" /\ m.thread_ts # m.ts

\* C26: conversations read with --exclude-replies never prints a thread
\* reply, whatever the other options are, --thread-ts included
C26_Original ==
  (cmd.name = "conversations read" /\ cmd.excludeReplies)
    => \A i \in DOMAIN PrintedMessages : ~PrintedReply(PrintedMessages[i])

\* what the code does keep: without --thread-ts, --exclude-replies prints no
\* thread reply
C26_HistoryOnly ==
  (cmd.name = "conversations read" /\ cmd.excludeReplies
     /\ cmd.threadTs = Undefined)
    => \A i \in DOMAIN PrintedMessages : ~PrintedReply(PrintedMessages[i])

\* a history read under --exclude-replies that printed the thread root but
\* not the reply the remote had sent with it
C26_WitnessHistory ==
  /\ cmd.name = "conversations read" /\ cmd.excludeReplies
  /\ cmd.threadTs = Undefined
  /\ pc = "done"
  /\ Len(PrintedMessages) = 1
  /\ PrintedMessages[1].ts = "17.5"
  /\ \E i \in DOMAIN wire : wire[i].method = "conversations.history"

\* the batch ran without an --output-dir
NoOutputDirGiven == cmd.outputDir = Undefined \/ cmd.outputDir = ""

\* the temporary directories made so far, and what the batch has written
TempDirState ==
  /\ Len(loc.tempDirs) <= 1
  /\ loc.tempDirs # <<>> => NoOutputDirGiven
  /\ \A i \in DOMAIN loc.tempDirs : loc.tempDirs[i] \in fs
  /\ \A i \in DOMAIN loc.downloads : loc.downloads[i].path \in fs

\* C24: a download batch (files download, conversations read
\* --download-files) makes a temporary directory at most once and only when
\* no output directory was given, and no step of the program removes the
\* directory or a file written into it: the disk only grows
C24_TempDirKept ==
  /\ []TempDirState
  /\ [][fs \subseteq fs']_vars

\* files download without --output-dir has written a file into the one
\* temporary directory it made
C24_Witness ==
  /\ cmd.name = "files download"
  /\ pc = "done"
  /\ loc.tempDirs = <<"/tmp/slackcli-downloads-Ab12cd">>
  /\ Len(loc.downloads) > 0
  /\ loc.downloads[1].path = "/tmp/slackcli-downloads-Ab12cd/a.txt"
  /\ loc.downloads[1].path \in fs

\* conversations read --download-files without --output-dir has done the same
C24_WitnessRead ==
  /\ cmd.name = "conversations read"
  /\ pc = "done"
  /\ loc.tempDirs = <<"/tmp/slackcli-downloads-Ab12cd">>
  /\ Len(loc.downloads) > 0
  /\ loc.downloads[1].path \in fs

\* with --output-dir the batch has written its files and made no temporary
\* directory
C24_WitnessOutputDir ==
  /\ cmd.outputDir = "out"
  /\ pc = "done"
  /\ loc.tempDirs = <<>>
  /\ Len(loc.downloads) > 0
  /\ "/tmp/slackcli-downloads-Ab12cd" \notin fs

\* the paths on the downloads list are pairwise distinct
DistinctPaths ==
  \A i, j \in DOMAIN loc.downloads :
    i # j => loc.downloads[i].path # loc.downloads[j].path

\* the step has put a file on the downloads list
FileWritten == Len(loc.downloads') > Len(loc.downloads)

\* C27: within one download batch each downloaded file is written to a path
\* that was not on the disk when it was chosen, so that nothing already there
\* is overwritten, and the paths on the downloads list are pairwise distinct,
\* also when several files share a name
C27_FreshPaths ==
  /\ []DistinctPaths
  /\ [][FileWritten =>
          LET d == loc.downloads'[Len(loc.downloads')] IN
          /\ d.path \notin fs
          /\ fs' = fs \cup {d.path}]_vars

\* files download F1 F1 into an output directory that already holds a.txt:
\* both files are named a.txt and are written as a-1.txt and a-2.txt
C27_Witness ==
  /\ cmd.name = "files download"
  /\ pc = "done"
  /\ "/cwd/out/a.txt" \in fs
  /\ Len(loc.downloads) = 2
  /\ loc.downloads[1].name = "a.txt" /\ loc.downloads[1].path = "/cwd/out/a-1.txt"
  /\ loc.downloads[2].name = "a.txt" /\ loc.downloads[2].path = "/cwd/out/a-2.txt"

\* conversations read --download-files: two attached files named a.txt in a
\* fresh temporary directory
C27_WitnessRead ==
  /\ cmd.name = "conversations read"
  /\ pc = "done"
  /\ Len(loc.downloads) = 2
  /\ loc.downloads[1].name = loc.downloads[2].name
  /\ loc.downloads[1].path # loc.downloads[2].path

\* the number of pages of the chain from the page the start cursor leads to
ChainLength == Len(server.pages) - PageOf(StartCursor) + 1

\* the cursor an attempt was sent with, Undefined when it carried none
SentCursor(att) ==
  IF "cursor" \in DOMAIN att.params THEN att.params["cursor"] ELSE Undefined

\* a cursor that names no page: absent or empty
NoCursor(c) == c = Undefined \/ c = ""

\* the step sends a users.list fetch of a drain-all walk
WalkFetch == DrainAll /\ Len(wire') = Len(wire) + 1

\* the step settles a fetch of a drain-all walk with a page
WalkPage == DrainAll /\ pc = "await" /\ last'.outcome.type = "return"

\* the handler is over
Terminated == pc \in {"done", "failed", "crashed"}

\* C25: a drain-all walk (users list --all, users search) fetches the first
\* page with the starting cursor and each later page with exactly the
\* next_cursor of the page before it; it stops after the first page whose
\* next_cursor is absent or empty and goes on after any other page; on a
\* chain of n >= 1 pages from the starting cursor on it never makes more
\* than n fetches, has made exactly n when the walk is complete, and the
\* handler terminates
C25_CursorWalk ==
  /\ [][WalkFetch =>
          LET sent == SentCursor(wire'[Len(wire')]) IN
          IF wire = <<>>
          THEN IF NoCursor(StartCursor) THEN sent = Undefined
               ELSE sent = StartCursor
          ELSE /\ last.outcome.type = "return"
               /\ ~NoCursor(last.outcome.data.next_cursor)
               /\ sent = last.outcome.data.next_cursor]_vars
  /\ [][WalkPage =>
          IF NoCursor(last'.outcome.data.next_cursor)
          THEN pc' = "collected" ELSE pc' = "fetch"]_vars
  /\ []((DrainAll /\ ChainLength >= 1) => Len(wire) <= ChainLength)
  /\ []((DrainAll /\ pc = "collected") => Len(wire) = ChainLength)
  /\ <>Terminated

\* users list --all --cursor c2 over a chain of three pages: two fetches, the
\* first with c2, the second with c3, then the walk is complete
C25_Witness ==
  /\ cmd.name = "users list" /\ cmd.all /\ cmd.cursor = "c2"
  /\ Len(server.pages) = 3
  /\ pc = "collected"
  /\ Len(wire) = 2
  /\ SentCursor(wire[1]) = "c2"
  /\ SentCursor(wire[2]) = "c3"

\* a walk from the first page whose last page carries an empty next_cursor
C25_WitnessEmptyCursor ==
  /\ DrainAll /\ NoCursor(StartCursor)
  /\ Len(server.pages) = 2 /\ server.tail = ""
  /\ pc = "collected"
  /\ Len(wire) = 2
  /\ SentCursor(wire[1]) = Undefined

\* the form bodies sent so far with browser auth
FormAttempts == {i \in DOMAIN wire : wire[i].strategy = "form"}

C28_TokenUnlessOverridden ==
  \A i \in FormAttempts :
    /\ "token" \in DOMAIN wire[i].body
    /\ "token" \notin DOMAIN cmd.params
         => wire[i].body["token"] = config.xoxc_token
    /\ "token" \in DOMAIN cmd.params
         => wire[i].body["token"] = cmd.params["token"]

\* a browser-auth request whose params carried another token has been sent
C28_WitnessOverridden ==
  /\ config.auth_type = "browser"
  /\ Len(wire) = 1
  /\ cmd.params = [token |-> "xoxp-other"]
  /\ wire[1].body["token"] = "xoxp-other"

\* a files download that was asked for files (not for the schema) is over
DownloadOver ==
  /\ cmd.name = "files download"
  /\ cmd.format # "schema"
  /\ pc \in {"done", "failed", "crashed"}

\* files download got its directory and its client and went through every
\* requested file
WentThroughFiles ==
  /\ DownloadOver
  /\ loc.outputDir # Undefined
  /\ loc.rest = <<>>

\* C29: files download exits with a non-zero code iff no requested file was
\* downloaded. With at least one file downloaded it prints the result (the
\* downloads, and the errors of the files that failed) and exits with 0;
\* when it went through the files and downloaded none it still prints the
\* result, with one error per requested file, and then exits with 1.
C29_ExitCode ==
  /\ DownloadOver => (exitCode # 0 <=> Len(loc.downloads) = 0)
  /\ (DownloadOver /\ exitCode = 0) =>
       /\ Len(stdout) = 1
       /\ stdout[1].data.downloads = loc.downloads
       /\ stdout[1].data.errors.list = loc.errors
  /\ (WentThroughFiles /\ Len(loc.downloads) = 0) =>
       /\ Len(stdout) = 1
       /\ stdout[1].data.downloads = <<>>
       /\ stdout[1].data.errors.present
       /\ Len(stdout[1].data.errors.list) = Len(cmd.fileIds)
       /\ exitCode = 1

\* two files asked for, none downloaded: the result with the two errors is
\* printed and the exit code is 1
C29_Witness ==
  /\ WentThroughFiles
  /\ cmd.fileIds = <<"F1", "F2">>
  /\ Len(stdout) = 1
  /\ Len(stdout[1].data.errors.list) = 2
  /\ stdout[1].data.downloads = <<>>
  /\ exitCode = 1

\* the first file downloaded, the second failed: exit code 0, both reported
C29_WitnessMixed ==
  /\ WentThroughFiles
  /\ cmd.fileIds = <<"F1", "F2">>
  /\ Len(stdout[1].data.downloads) = 1
  /\ stdout[1].data.downloads[1].file_id = "F1"
  /\ Len(stdout[1].data.errors.list) = 1
  /\ exitCode = 0

\* how many times the modifier is:thread occurs in a query
ThreadModifiers(q) ==
  Cardinality({i \in 1..(Len(q) - 8) : SubSeq(q, i, i + 8) = "is:thread"})

\* the step sends the search of the standard path
StandardSearchSent ==
  /\ pc = "search" /\ pc' = "awaitSearch"
  /\ ~cmd.includeAllChannels

\* C30: the is:thread augmentation of the standard search path is
\* idempotent. The query sent is the built query as it is when that already
\* contains is:thread (or --top-level-only is set), and the built query
\* followed by " is:thread" otherwise; so the augmentation never adds a
\* second is:thread, and without --top-level-only the sent query contains
\* the modifier.
C30_AugmentOnce ==
  [][StandardSearchSent =>
       LET sent == wire'[Len(wire')].params["query"] IN
       /\ sent = fullQuery'
       /\ ThreadModifiers(fullQuery) >= 1 => sent = fullQuery
       /\ cmd.topLevelOnly => sent = fullQuery
       /\ (ThreadModifiers(fullQuery) = 0 /\ ~cmd.topLevelOnly)
            => /\ Len(sent) = Len(fullQuery) + 10
               /\ SubSeq(sent, 1, Len(fullQuery)) = fullQuery
               /\ SubSeq(sent, Len(fullQuery) + 1, Len(sent)) = " is:thread"
               /\ ThreadModifiers(sent) = 1
       /\ ThreadModifiers(sent) <= (IF ThreadModifiers(fullQuery) = 0
                                    THEN 1 ELSE ThreadModifiers(fullQuery))]_vars

\* a query that already has the modifier has been sent as it was built
C30_Witness ==
  /\ cmd.name = "search messages"
  /\ ~cmd.includeAllChannels /\ ~cmd.topLevelOnly
  /\ cmd.query = "is:thread hi" /\ cmd.channel = "#dev"
  /\ Len(wire) > 0
  /\ wire[Len(wire)].method = "search.messages"
  /\ wire[Len(wire)].params["query"] = "is:thread hi in:#dev"

\* a query without the modifier has been sent with one is:thread at its end
C30_WitnessAppended ==
  /\ cmd.name = "search messages"
  /\ ~cmd.includeAllChannels /\ ~cmd.topLevelOnly
  /\ cmd.query = "hi" /\ cmd.from = Undefined /\ cmd.channel = Undefined
  /\ Len(wire) > 0
  /\ wire[Len(wire)].params["query"] = "hi is:thread"
====
